---- MODULE Spec2Model ----
(***************************************************************************)
(* A model of the ChangeSense comparison core: the clause segmenter, the   *)
(* four-stage clause aligner, the word/table diff, the rule engine and the *)
(* numeric delta extractor.                                                *)
(*                                                                         *)
(* Text is modelled at the character level: a string is a sequence of      *)
(* one-character strings, so that the regular expressions, str.lower(),    *)
(* str.strip() and difflib.SequenceMatcher of the source are computed as   *)
(* the code computes them.                                                 *)
(***************************************************************************)
EXTENDS Integers, Sequences, FiniteSets, TLC

VARIABLES
    \* align_clauses (alignment.py)
    tree_a, tree_b, a_nodes, b_nodes, a_pos, used_b, entries, align_pc,
    \* pure-function harness: the operation, its inputs and its result
    fn_op, fn_before, fn_after, fn_result, fn_pc,
    \* the /compare handler (backend_old/app/main.py): the locals of every
    \* request being served, and the module-level dict RUNS
    requests, RUNS,
    \* the enrichment endpoint: the module-level dict AI_RUNS and the last call
    \* of _ai_insights
    AI_RUNS, ai_call

alignVars == <<tree_a, tree_b, a_nodes, b_nodes, a_pos, used_b, entries, align_pc>>
fnVars == <<fn_op, fn_before, fn_after, fn_result, fn_pc>>
compareVars == <<requests, RUNS, AI_RUNS, ai_call>>
vars == <<alignVars, fnVars, compareVars>>

(***************************************************************************)
(* Characters and strings                                                  *)
(***************************************************************************)
Digit == {"0", "1", "2", "3", "4", "5", "6", "7", "8", "9"}

UpperLetter == {"A", "B", "C", "D", "E", "F", "G", "H", "I", "J", "K", "L", "M",
                "N", "O", "P", "Q", "R", "S", "T", "U", "V", "W", "X", "Y", "Z"}

LowerLetter == {"a", "b", "c", "d", "e", "f", "g", "h", "i", "j", "k", "l", "m",
                "n", "o", "p", "q", "r", "s", "t", "u", "v", "w", "x", "y", "z"}

\* \w of Python's re on the ASCII range
WordChar == Digit \cup UpperLetter \cup LowerLetter \cup {"_"}

\* \s of Python's re on the characters the model uses
SpaceChar == {" ", "\n", "\t"}

LowerOf ==
    ("A" :> "a") @@ ("B" :> "b") @@ ("C" :> "c") @@ ("D" :> "d") @@ ("E" :> "e") @@
    ("F" :> "f") @@ ("G" :> "g") @@ ("H" :> "h") @@ ("I" :> "i") @@ ("J" :> "j") @@
    ("K" :> "k") @@ ("L" :> "l") @@ ("M" :> "m") @@ ("N" :> "n") @@ ("O" :> "o") @@
    ("P" :> "p") @@ ("Q" :> "q") @@ ("R" :> "r") @@ ("S" :> "s") @@ ("T" :> "t") @@
    ("U" :> "u") @@ ("V" :> "v") @@ ("W" :> "w") @@ ("X" :> "x") @@ ("Y" :> "y") @@
    ("Z" :> "z")

\* str.lower()
Lower(s) == [i \in 1..Len(s) |-> IF s[i] \in UpperLetter THEN LowerOf[s[i]] ELSE s[i]]

\* s[i:j] of Python with 1-based inclusive start i and exclusive end j
Slice(s, i, j) == IF j <= i THEN <<>> ELSE SubSeq(s, i, j - 1)

\* the first index >= i of s whose character is not in class (Len(s)+1 if none)
RECURSIVE SkipClass(_, _, _)
SkipClass(s, i, class) ==
    IF i <= Len(s) /\ s[i] \in class THEN SkipClass(s, i + 1, class) ELSE i

\* the last index <= i of s whose character is not in class (0 if none)
RECURSIVE SkipClassBack(_, _, _)
SkipClassBack(s, i, class) ==
    IF i >= 1 /\ s[i] \in class THEN SkipClassBack(s, i - 1, class) ELSE i

\* str.strip()
Strip(s) ==
    LET lo == SkipClass(s, 1, SpaceChar)
        hi == SkipClassBack(s, Len(s), SpaceChar)
    IN  Slice(s, lo, hi + 1)

\* the first index >= i of s holding character c (Len(s)+1 if none)
RECURSIVE FindChar(_, _, _)
FindChar(s, i, c) ==
    IF i <= Len(s) /\ s[i] # c THEN FindChar(s, i + 1, c) ELSE i

\* text.splitlines()[0] of a non-empty text
FirstLine(s) == Slice(s, 1, FindChar(s, 1, "\n"))

\* s.startswith(p) at index i
StartsWithAt(s, i, p) ==
    /\ i + Len(p) - 1 <= Len(s)
    /\ \A k \in 1..Len(p) : s[i + k - 1] = p[k]

\* " ".join(parts)
RECURSIVE JoinWith(_, _)
JoinWith(parts, sep) ==
    IF parts = <<>> THEN <<>>
    ELSE IF Len(parts) = 1 THEN parts[1]
    ELSE parts[1] \o sep \o JoinWith(Tail(parts), sep)

(***************************************************************************)
(* utils.py: the legal tokenizer                                           *)
(***************************************************************************)
LEGAL_MULTIWORD == <<
    <<"t", "o", " ", "t", "h", "e", " ", "e", "x", "t", "e", "n", "t">>,
    <<"p", "r", "o", "v", "i", "d", "e", "d", " ", "t", "h", "a", "t">>,
    <<"i", "n", " ", "a", "c", "c", "o", "r", "d", "a", "n", "c", "e", " ", "w", "i", "t", "h">>,
    <<"s", "u", "b", "j", "e", "c", "t", " ", "t", "o">>,
    <<"a", "s", " ", "s", "e", "t", " ", "f", "o", "r", "t", "h">> >>

\* t.replace(phrase, phrase.replace(" ", "_")) from index i on
RECURSIVE ReplacePhrase(_, _, _)
ReplacePhrase(t, i, phrase) ==
    IF i > Len(t) THEN <<>>
    ELSE IF StartsWithAt(t, i, phrase)
         THEN [k \in 1..Len(phrase) |-> IF phrase[k] = " " THEN "_" ELSE phrase[k]]
              \o ReplacePhrase(t, i + Len(phrase), phrase)
         ELSE <<t[i]>> \o ReplacePhrase(t, i + 1, phrase)

RECURSIVE ReplaceAllPhrases(_, _)
ReplaceAllPhrases(t, k) ==
    IF k > Len(LEGAL_MULTIWORD) THEN t
    ELSE ReplaceAllPhrases(ReplacePhrase(t, 1, LEGAL_MULTIWORD[k]), k + 1)

\* re.findall(r"[\w_]+|[^\w\s]", t) from index i on
RECURSIVE FindLegalTokens(_, _)
FindLegalTokens(t, i) ==
    IF i > Len(t) THEN <<>>
    ELSE IF t[i] \in WordChar
         THEN LET e == SkipClass(t, i, WordChar)
              IN  <<Slice(t, i, e)>> \o FindLegalTokens(t, e)
         ELSE IF t[i] \in SpaceChar THEN FindLegalTokens(t, i + 1)
         ELSE <<(<<t[i]>>)>> \o FindLegalTokens(t, i + 1)

tokenize_legal(text) == FindLegalTokens(ReplaceAllPhrases(Lower(text), 1), 1)

(***************************************************************************)
(* clause_tree.py: the clause segmenter                                    *)
(***************************************************************************)
RootId == <<"root">>
ClauseId(idx) == <<"clause-", idx>>

NoMatch == [ok |-> FALSE, num |-> <<>>, title |-> <<>>]

\* the end (exclusive) of the longest \d+(?:\.\d+)* starting at i, or i if none
RECURSIVE DottedDigitsEnd(_, _)
DottedDigitsEnd(s, i) ==
    LET e == SkipClass(s, i, Digit)
    IN  IF e = i THEN i
        ELSE IF e <= Len(s) /\ s[e] = "." /\ SkipClass(s, e + 1, Digit) > e + 1
             THEN DottedDigitsEnd(s, e + 1)
             ELSE e

\* \s*[\).]\s+ starting at i: the index after it, or 0 when it does not match
AfterDelimiter(s, i) ==
    LET d == SkipClass(s, i, SpaceChar)
    IN  IF d <= Len(s) /\ s[d] \in {")", "."}
           /\ SkipClass(s, d + 1, SpaceChar) > d + 1
        THEN SkipClass(s, d + 1, SpaceChar)
        ELSE 0

\* (.*)$ from index i: the group, when no newline precedes the last character
RestOfLine(s, i) ==
    LET nl == FindChar(s, i, "\n")
    IN  IF nl > Len(s) THEN [ok |-> TRUE, text |-> Slice(s, i, Len(s) + 1)]
        ELSE IF nl = Len(s) THEN [ok |-> TRUE, text |-> Slice(s, i, nl)]
        ELSE [ok |-> FALSE, text |-> <<>>]

\* The end (exclusive) of the numbering token of clause_tree.HEADING_RE at p0:
\* \d+(?:\.\d+)*, else [IVX]+, else [A-Z]. A shorter match of an alternative
\* is followed by a character of that alternative, never by \s*[\).], so only
\* the longest match of the first alternative that matches can succeed.
SegmenterNumberEnd(s, p0) ==
    IF DottedDigitsEnd(s, p0) > p0 THEN DottedDigitsEnd(s, p0)
    ELSE IF SkipClass(s, p0, {"I", "V", "X"}) > p0 THEN SkipClass(s, p0, {"I", "V", "X"})
    ELSE IF p0 <= Len(s) /\ s[p0] \in UpperLetter THEN p0 + 1
    ELSE p0

\* clause_tree.HEADING_RE.match(text): ^\s*(\d+(?:\.\d+)*|[IVX]+|[A-Z])\s*[\).]\s+(.*)$
SegmenterHeading(s) ==
    LET p0 == SkipClass(s, 1, SpaceChar)
        e == SegmenterNumberEnd(s, p0)
        r == AfterDelimiter(s, e)
    IN  IF e = p0 \/ r = 0 \/ ~RestOfLine(s, r).ok THEN NoMatch
        ELSE [ok |-> TRUE, num |-> Slice(s, p0, e), title |-> RestOfLine(s, r).text]

DEFINITIONS == <<"d", "e", "f", "i", "n", "i", "t", "i", "o", "n", "s">>

_make_node(idx, label, text, node_type) ==
    [clause_id |-> ClauseId(idx), type |-> node_type, label |-> label, path |-> label,
     text |-> text, text_tokens |-> tokenize_legal(text), children |-> <<>>]

\* re.match(r"\"([^\"]+)\"\s+means\s+(.*)", text, re.IGNORECASE), from the
\* closing quote at index q on: the DefinedTerm of the node, or nothing.
\* "\s+" takes every blank, and "(.*)" the rest of the line it ends on.
TermAfterQuote(node, q, w) ==
    IF /\ w > q + 1
       /\ StartsWithAt(Lower(node.text), w, <<"m", "e", "a", "n", "s">>)
       /\ SkipClass(node.text, w + 5, SpaceChar) > w + 5
    THEN <<[term |-> Slice(node.text, 2, q),
            definition_clause_id |-> node.clause_id,
            definition_text |->
                Slice(node.text, SkipClass(node.text, w + 5, SpaceChar),
                      FindChar(node.text, SkipClass(node.text, w + 5, SpaceChar), "\n"))]>>
    ELSE <<>>

\* the opening quote, one or more characters other than a quote, the closing quote
TermQuoted(node, q) ==
    IF q > 2 /\ q <= Len(node.text)
    THEN TermAfterQuote(node, q, SkipClass(node.text, q + 1, SpaceChar))
    ELSE <<>>

\* _extract_defined_terms(node, terms): the terms it appends
_extract_defined_terms(node) ==
    IF node.text # <<>> /\ node.text[1] = "\""
    THEN TermQuoted(node, FindChar(node.text, 2, "\""))
    ELSE <<>>

SegInit == [idx |-> 0, open |-> FALSE, label |-> <<>>, type |-> "", buffer_text |-> <<>>,
            children |-> <<>>, defined_terms |-> <<>>]

\* "idx += 1; node = _make_node(...); root.children.append(node)" and, for a
\* clause that is not a table, "_extract_defined_terms(node, defined_terms)"
AddNode(st, node, terms) ==
    [st EXCEPT !.idx = st.idx + 1,
               !.children = Append(st.children, node),
               !.defined_terms = st.defined_terms \o terms]

AddClause(st, node) == AddNode(st, node, _extract_defined_terms(node))

\* flush(): close the open clause, when there is one with text
flush(st) ==
    IF st.open /\ Strip(st.buffer_text) # <<>>
    THEN [AddClause(st, _make_node(st.idx + 1, st.label, Strip(st.buffer_text), st.type))
             EXCEPT !.open = FALSE, !.buffer_text = <<>>]
    ELSE st

\* the body of the loop with the title compared to "definitions" as written
SegBlock_case_sensitive(st, block) ==
    LET m == SegmenterHeading(block.text)
    IN  IF block.text = <<>> THEN st
        ELSE IF m.ok
        THEN [flush(st) EXCEPT
                 !.open = TRUE, !.label = m.num,
                 !.type = IF StartsWithAt(m.title, 1, DEFINITIONS)
                          THEN "definition" ELSE "section",
                 !.buffer_text = block.text]
        ELSE IF block.block_type \in {"table", "table_row", "table_cell"}
        THEN IF st.open
             THEN [st EXCEPT !.buffer_text = st.buffer_text \o <<"\n">> \o block.text]
             ELSE AddNode(st, _make_node(st.idx + 1, <<"t", "a", "b", "l", "e">>, block.text, "table"), <<>>)
        ELSE IF st.open
        THEN [st EXCEPT !.buffer_text = st.buffer_text \o <<"\n">> \o block.text]
        ELSE AddClause(st, _make_node(st.idx + 1, <<"s", "e", "c", "t", "i", "o", "n">>, block.text, "section"))

\* the body of "for block in blocks" for one block
SegBlock(st, block) ==
    LET m == SegmenterHeading(block.text)
    IN  IF block.text = <<>> THEN st
        ELSE IF m.ok
        THEN [flush(st) EXCEPT
                 !.open = TRUE, !.label = m.num,
                 !.type = IF StartsWithAt(Lower(m.title), 1, DEFINITIONS)
                          THEN "definition" ELSE "section",
                 !.buffer_text = block.text]
        ELSE IF block.block_type \in {"table", "table_row", "table_cell"}
        THEN IF st.open
             THEN [st EXCEPT !.buffer_text = st.buffer_text \o <<"\n">> \o block.text]
             ELSE AddNode(st, _make_node(st.idx + 1, <<"t", "a", "b", "l", "e">>, block.text, "table"), <<>>)
        ELSE IF st.open
        THEN [st EXCEPT !.buffer_text = st.buffer_text \o <<"\n">> \o block.text]
        ELSE AddClause(st, _make_node(st.idx + 1, <<"s", "e", "c", "t", "i", "o", "n">>, block.text, "section"))

RECURSIVE SegFold(_, _, _)
SegFold(st, blocks, k) ==
    IF k > Len(blocks) THEN st ELSE SegFold(SegBlock(st, blocks[k]), blocks, k + 1)

\* the ClauseTree of the final segmenter state
TreeOf(st) ==
    [root |-> [clause_id |-> RootId, type |-> "section", label |-> <<"r", "o", "o", "t">>, path |-> <<"r", "o", "o", "t">>,
               text |-> <<>>, text_tokens |-> <<>>, children |-> st.children],
     defined_terms |-> st.defined_terms]

build_clause_tree(blocks) == TreeOf(flush(SegFold(SegInit, blocks, 1)))

(***************************************************************************)
(* difflib.SequenceMatcher(isjunk, a, b), as alignment.py, diff.py and     *)
(* diff_engine.py use it. Positions are Python's: 0-based, ranges          *)
(* half-open. The sequences of the model are shorter than 200 elements, so *)
(* the "autojunk" heuristic of difflib is never applied.                   *)
(***************************************************************************)
At(s, i) == s[i + 1]

\* j2len[j] when the outer loop of find_longest_match is at i: the length of
\* the run of equal, non-junk elements that ends at a[i], b[j], inside the
\* window that starts at alo, blo
RunLen(a, b, junk, i, j, alo, blo) ==
    LET lim == IF i - alo < j - blo THEN i - alo + 1 ELSE j - blo + 1
        Same(t) == At(a, i - t) = At(b, j - t) /\ At(b, j - t) \notin junk
    IN  CHOOSE k \in 0..lim :
            /\ \A t \in 0..(k - 1) : Same(t)
            /\ k = lim \/ ~Same(k)

\* j2len at every pair (i, j) of the window where a[i] = b[j] and b[j] is not junk
RunLengths(a, b, junk, alo, ahi, blo, bhi) ==
    [c \in {d \in (alo..(ahi - 1)) \X (blo..(bhi - 1)) :
                At(a, d[1]) = At(b, d[2]) /\ At(b, d[2]) \notin junk}
        |-> RunLen(a, b, junk, c[1], c[2], alo, blo)]

\* the best block of the run lengths K: the longest run, and among the longest
\* the one met first, with the smallest i, then the smallest j
BestRun(K) ==
    LET bestsize == CHOOSE k \in {K[c] : c \in DOMAIN K} : \A c \in DOMAIN K : K[c] <= k
        besti == CHOOSE i \in {c[1] : c \in {d \in DOMAIN K : K[d] = bestsize}} :
                     \A c \in {d \in DOMAIN K : K[d] = bestsize} : i <= c[1]
        bestj == CHOOSE j \in {c[2] : c \in {d \in DOMAIN K : K[d] = bestsize /\ d[1] = besti}} :
                     \A c \in {d \in DOMAIN K : K[d] = bestsize /\ d[1] = besti} : j <= c[2]
    IN  <<besti - bestsize + 1, bestj - bestsize + 1, bestsize>>

FirstBestRun(K, alo, blo) == IF DOMAIN K = {} THEN <<alo, blo, 0>> ELSE BestRun(K)

\* The loops "for i in range(alo, ahi): for j in b2j[a[i]]" of
\* find_longest_match: the best block is replaced only by a strictly longer one.
ScanLongest(a, b, junk, alo, ahi, blo, bhi) ==
    FirstBestRun(RunLengths(a, b, junk, alo, ahi, blo, bhi), alo, blo)

\* the "while" loops that extend the best block to the left, over elements of b
\* that are junk (inJunk = TRUE) or not junk (inJunk = FALSE)
RECURSIVE ExtendLeft(_, _, _, _, _, _, _)
ExtendLeft(a, b, junk, alo, blo, inJunk, m) ==
    IF /\ m[1] > alo /\ m[2] > blo
       /\ (At(b, m[2] - 1) \in junk) = inJunk
       /\ At(a, m[1] - 1) = At(b, m[2] - 1)
    THEN ExtendLeft(a, b, junk, alo, blo, inJunk, <<m[1] - 1, m[2] - 1, m[3] + 1>>)
    ELSE m

RECURSIVE ExtendRight(_, _, _, _, _, _, _)
ExtendRight(a, b, junk, ahi, bhi, inJunk, m) ==
    IF /\ m[1] + m[3] < ahi /\ m[2] + m[3] < bhi
       /\ (At(b, m[2] + m[3]) \in junk) = inJunk
       /\ At(a, m[1] + m[3]) = At(b, m[2] + m[3])
    THEN ExtendRight(a, b, junk, ahi, bhi, inJunk, <<m[1], m[2], m[3] + 1>>)
    ELSE m

find_longest_match(a, b, junk, alo, ahi, blo, bhi) ==
    LET m0 == ScanLongest(a, b, junk, alo, ahi, blo, bhi)
        m1 == ExtendLeft(a, b, junk, alo, blo, FALSE, m0)
        m2 == ExtendRight(a, b, junk, ahi, bhi, FALSE, m1)
        m3 == ExtendLeft(a, b, junk, alo, blo, TRUE, m2)
    IN  ExtendRight(a, b, junk, ahi, bhi, TRUE, m3)

\* the queue of get_matching_blocks, in the sorted order of its result: the
\* blocks to the left of the longest match m of the window, m, and the blocks
\* to its right
RECURSIVE MatchingBlocksIn(_, _, _, _, _, _, _)
RECURSIVE BlocksAround(_, _, _, _, _, _, _, _)
BlocksAround(a, b, junk, alo, ahi, blo, bhi, m) ==
    IF m[3] = 0 THEN <<>>
    ELSE (IF alo < m[1] /\ blo < m[2]
          THEN MatchingBlocksIn(a, b, junk, alo, m[1], blo, m[2]) ELSE <<>>)
         \o <<m>>
         \o (IF m[1] + m[3] < ahi /\ m[2] + m[3] < bhi
             THEN MatchingBlocksIn(a, b, junk, m[1] + m[3], ahi, m[2] + m[3], bhi) ELSE <<>>)

MatchingBlocksIn(a, b, junk, alo, ahi, blo, bhi) ==
    BlocksAround(a, b, junk, alo, ahi, blo, bhi,
                 find_longest_match(a, b, junk, alo, ahi, blo, bhi))

\* the loop of get_matching_blocks that collapses adjacent blocks
RECURSIVE CollapseAdjacent(_, _)
CollapseAdjacent(blocks, cur) ==
    IF blocks = <<>> THEN (IF cur[3] > 0 THEN <<cur>> ELSE <<>>)
    ELSE LET n == Head(blocks)
         IN  IF cur[1] + cur[3] = n[1] /\ cur[2] + cur[3] = n[2]
             THEN CollapseAdjacent(Tail(blocks), <<cur[1], cur[2], cur[3] + n[3]>>)
             ELSE (IF cur[3] > 0 THEN <<cur>> ELSE <<>>)
                  \o CollapseAdjacent(Tail(blocks), n)

get_matching_blocks(a, b, junk) ==
    CollapseAdjacent(MatchingBlocksIn(a, b, junk, 0, Len(a), 0, Len(b)), <<0, 0, 0>>)
    \o << <<Len(a), Len(b), 0>> >>

RECURSIVE SumSizes(_)
SumSizes(blocks) == IF blocks = <<>> THEN 0 ELSE Head(blocks)[3] + SumSizes(Tail(blocks))

\* the loop of get_opcodes over the matching blocks, from position (i, j)
RECURSIVE OpcodesFrom(_, _, _)
OpcodesFrom(blocks, i, j) ==
    IF blocks = <<>> THEN <<>>
    ELSE LET ai == Head(blocks)[1]
             bj == Head(blocks)[2]
             size == Head(blocks)[3]
             tag == IF i < ai /\ j < bj THEN "replace"
                    ELSE IF i < ai THEN "delete"
                    ELSE IF j < bj THEN "insert"
                    ELSE ""
         IN  (IF tag # "" THEN << <<tag, i, ai, j, bj>> >> ELSE <<>>)
             \o (IF size > 0 THEN << <<"equal", ai, ai + size, bj, bj + size>> >> ELSE <<>>)
             \o OpcodesFrom(Tail(blocks), ai + size, bj + size)

get_opcodes(a, b, junk) == OpcodesFrom(get_matching_blocks(a, b, junk), 0, 0)

(***************************************************************************)
(* Similarity scores. A score is a non-negative float of the code. It is   *)
(* kept as the square of its real value, the fraction sq_num / sq_den, and *)
(* the number of floats (ulps) by which the IEEE-754 double the code       *)
(* computes lies above (+) or below (-) the double nearest to that real    *)
(* value. Two scores compare as the code's floats compare: by real value,  *)
(* and by ulps where the real values are equal.                            *)
(***************************************************************************)
Score(sq_num, sq_den, ulps) == [sq_num |-> sq_num, sq_den |-> sq_den, ulps |-> ulps]

\* the float literals of alignment.py
Zero == Score(0, 1, 0)
One == Score(1, 1, 0)
FUZZY_THRESHOLD == Score(49, 100, 0)
COSINE_THRESHOLD == Score(121, 400, 0)
SPLIT_THRESHOLD == Score(81, 400, 0)

ScoreLess(x, y) ==
    \/ x.sq_num * y.sq_den < y.sq_num * x.sq_den
    \/ /\ x.sq_num * y.sq_den = y.sq_num * x.sq_den
       /\ x.ulps < y.ulps

ScoreLeq(x, y) == ~ScoreLess(y, x)

ScoreMax(x, y) == IF ScoreLess(x, y) THEN y ELSE x

\* SequenceMatcher(None, a, b).ratio(): 2.0 * matches / (len(a) + len(b)), one
\* correctly rounded division of two small integers
\* 2.0 * matches / length
RatioOf(matches, length) == Score(4 * matches * matches, length * length, 0)

ratio(a, b) ==
    IF Len(a) + Len(b) = 0 THEN One
    ELSE RatioOf(SumSizes(get_matching_blocks(a, b, {})), Len(a) + Len(b))

(***************************************************************************)
(* alignment.py                                                            *)
(***************************************************************************)
\* re.sub(r"\W+", "", label.lower())
_normalize_label(label) == SelectSeq(Lower(label), LAMBDA c : c \in WordChar)

NoParts == [num |-> <<>>, title |-> <<>>]

\* alignment.HEADING_RE.match(first_line): ^\s*(\d+(?:\.\d+)*)\s*[\).]\s+(.+?)\s*$
\* on a stripped line whose numbering token ends before e and whose title
\* starts at r; the title is the rest of the line without its trailing
\* whitespace, and must not be empty
AlignerHeadingAt(first_line, e, r) ==
    IF e = 1 \/ r = 0 \/ Strip(Slice(first_line, r, Len(first_line) + 1)) = <<>> THEN NoParts
    ELSE [num |-> Slice(first_line, 1, e),
          title |-> Strip(Slice(first_line, r, Len(first_line) + 1))]

AlignerHeadingFrom(first_line, e) == AlignerHeadingAt(first_line, e, AfterDelimiter(first_line, e))

AlignerHeading(first_line) == AlignerHeadingFrom(first_line, DottedDigitsEnd(first_line, 1))

_extract_heading_parts(node) ==
    IF node.text = <<>> THEN NoParts ELSE AlignerHeading(Strip(FirstLine(node.text)))

\* Python's "x or y" on strings
OrElse(x, y) == IF x # <<>> THEN x ELSE y

\* the key of a clause with this heading title and label
KeyOf(title, label) == IF title # <<>> THEN _normalize_label(title) ELSE _normalize_label(label)

_match_key(node) == KeyOf(_extract_heading_parts(node).title, node.label)

\* re.findall(r"\w+", text) from index i on
RECURSIVE FindWords(_, _)
FindWords(t, i) ==
    IF i > Len(t) THEN <<>>
    ELSE IF t[i] \in WordChar
         THEN LET e == SkipClass(t, i, WordChar)
              IN  <<Slice(t, i, e)>> \o FindWords(t, e)
         ELSE FindWords(t, i + 1)

\* token -> number of occurrences in toks
BagOf(toks) ==
    [w \in {toks[i] : i \in 1..Len(toks)} |-> Cardinality({i \in 1..Len(toks) : toks[i] = w})]

_bag_vector(text) == BagOf(FindWords(Lower(text), 1))

RECURSIVE SumOver(_, _)
SumOver(f, keys) ==
    IF keys = {} THEN 0
    ELSE LET k == CHOOSE x \in keys : TRUE
         IN  f[k] + SumOver(f, keys \ {k})

\* The float arithmetic of _cosine, dot / (sum ** 0.5 * sum ** 0.5), rounds three
\* times. IeeeUlpsTable[<<dot, na, nb>>] (na <= nb) is the number of doubles by
\* which its IEEE-754 result lies above or below the double nearest to the real
\* dot / sqrt(na * nb), for the vectors of every clause pair of the model's
\* documents. 3 / (3 ** 0.5 * 3 ** 0.5) is 1.0000000000000002, one double above 1.0.
IeeeUlpsTable ==
    (<<1, 1, 1>> :> 0) @@ (<<1, 1, 2>> :> -1) @@ (<<1, 1, 3>> :> 1) @@ (<<1, 1, 4>> :> 0) @@
    (<<1, 1, 9>> :> 0) @@ (<<1, 1, 10>> :> 0) @@ (<<1, 2, 2>> :> -2) @@ (<<1, 2, 3>> :> -1) @@
    (<<1, 2, 4>> :> -1) @@ (<<1, 2, 9>> :> -1) @@ (<<1, 2, 10>> :> 0) @@ (<<2, 2, 2>> :> -2) @@
    (<<2, 2, 3>> :> -1) @@ (<<2, 2, 4>> :> -1) @@ (<<2, 2, 10>> :> 0) @@ (<<2, 3, 3>> :> 1) @@
    (<<2, 3, 4>> :> 1) @@ (<<2, 3, 5>> :> -1) @@ (<<3, 2, 10>> :> 0) @@ (<<3, 2, 16>> :> 0) @@
    (<<3, 3, 3>> :> 1) @@ (<<3, 3, 4>> :> 1) @@ (<<3, 4, 4>> :> 0) @@ (<<3, 4, 5>> :> 0) @@
    (<<3, 5, 5>> :> -1) @@ (<<4, 2, 9>> :> -1) @@ (<<4, 2, 10>> :> 0) @@ (<<4, 3, 10>> :> 0) @@
    (<<4, 4, 4>> :> 0) @@ (<<4, 4, 9>> :> 0) @@ (<<4, 10, 25>> :> 0) @@ (<<5, 3, 9>> :> 0) @@
    (<<5, 3, 10>> :> 0) @@ (<<5, 4, 9>> :> 0) @@ (<<5, 4, 10>> :> -1) @@ (<<5, 5, 5>> :> -2) @@
    (<<6, 4, 10>> :> 0) @@ (<<8, 9, 10>> :> 0) @@ (<<9, 9, 9>> :> 0) @@ (<<9, 9, 10>> :> 0) @@
    (<<9, 10, 10>> :> -2) @@ (<<9, 14, 20>> :> 0) @@ (<<9, 18, 20>> :> 0) @@ (<<9, 20, 20>> :> -2) @@
    (<<10, 10, 10>> :> -2) @@ (<<11, 10, 40>> :> -1) @@ (<<11, 16, 25>> :> 0) @@ (<<15, 14, 18>> :> 1) @@
    (<<18, 18, 18>> :> 1) @@ (<<18, 18, 20>> :> 0) @@ (<<21, 16, 40>> :> 0)

IeeeCosineUlps(dot, na, nb) ==
    IeeeUlpsTable[<<dot, IF na < nb THEN na ELSE nb, IF na < nb THEN nb ELSE na>>]

\* dot, and the squares of norm_a and norm_b, of _cosine
Dot(a, b) ==
    LET common == DOMAIN a \cap DOMAIN b
    IN  SumOver([k \in common |-> a[k] * b[k]], common)

NormSq(a) == SumOver([k \in DOMAIN a |-> a[k] * a[k]], DOMAIN a)

\* dot / (norm_a * norm_b), as the float the code computes, from dot and the
\* squares of the norms
CosineOf(dot, na, nb) ==
    IF dot = 0 THEN Zero ELSE Score(dot * dot, na * nb, IeeeCosineUlps(dot, na, nb))

_cosine(a, b) ==
    IF DOMAIN a = {} \/ DOMAIN b = {} THEN Zero
    ELSE CosineOf(Dot(a, b), NormSq(a), NormSq(b))

\* _flatten(tree): the nodes below the root, in document order
RECURSIVE walk(_)
RECURSIVE WalkAll(_, _)
WalkAll(children, k) ==
    IF k > Len(children) THEN <<>> ELSE walk(children[k]) \o WalkAll(children, k + 1)
\* a walk that forgets to leave the root out
walk_keeping_root(node) == <<node>> \o WalkAll(node.children, 1)

walk(node) ==
    (IF node.clause_id # RootId THEN <<node>> ELSE <<>>) \o WalkAll(node.children, 1)

_flatten(tree) == walk(tree.root)

\* the clauses of nodes with a key of keys, grouped by key, in document order
GroupByKey(nodes, keys) == [key \in keys |-> SelectSeq(nodes, LAMBDA n : _match_key(n) = key)]

\* b_by_key: key -> the new clauses with that key
b_by_key(nodes) == GroupByKey(nodes, {_match_key(nodes[i]) : i \in 1..Len(nodes)} \ {<<>>})

\* Stage 1: the first candidate of b_by_key[key] that is not used (<<>> if none)
RECURSIVE FirstUnused(_, _, _)
\* a stage 1 that forgets the used set: the first candidate, claimed or not
FirstCandidate(candidates, used, k) ==
    IF candidates = <<>> THEN <<>> ELSE <<candidates[1]>>

FirstUnused(candidates, used, k) ==
    IF k > Len(candidates) THEN <<>>
    ELSE IF candidates[k].clause_id \in used THEN FirstUnused(candidates, used, k + 1)
    ELSE <<candidates[k]>>

\* "if key: for candidate in b_by_key.get(key, []): ..."
FirstUnusedOfKey(key, index, used) ==
    IF key # <<>> /\ key \in DOMAIN index THEN FirstUnused(index[key], used, 1) ELSE <<>>

\* a stage 1 that takes the first unused new clause whatever its key
title_exact_any_key(a, nodes, used) == FirstUnused(nodes, used, 1)

title_exact(a, nodes, used) == FirstUnusedOfKey(_match_key(a), b_by_key(nodes), used)

\* "_extract_heading_parts(n)[1] or n.label"
TitleOrLabel(n) == OrElse(_extract_heading_parts(n).title, n.label)

\* " ".join(n.text_tokens[:12])
HeadText(n) ==
    JoinWith(SubSeq(n.text_tokens, 1, IF Len(n.text_tokens) < 12 THEN Len(n.text_tokens) ELSE 12),
             <<" ">>)

\* " ".join(n.text_tokens)
BodyText(n) == JoinWith(n.text_tokens, <<" ">>)

\* "SequenceMatcher(None, a_title, b_title).ratio() if a_title and b_title else 0"
label_sim(a_title, b_title) ==
    IF a_title # <<>> /\ b_title # <<>> THEN ratio(a_title, b_title) ELSE Zero

\* the score of stage 2: max(label_sim, head_sim)
fuzzy_score(a, b) ==
    ScoreMax(label_sim(TitleOrLabel(a), TitleOrLabel(b)), ratio(HeadText(a), HeadText(b)))

\* the score of stages 3 and 4
cosine_score(a, b) == _cosine(_bag_vector(BodyText(a)), _bag_vector(BodyText(b)))

\* "if score > best[0]: best = (score, b)"; best is <<score, <<b>> >>, or
\* <<score, <<>> >> while it holds None
\* "if score >= best[0]": a later clause of equal score replaces the best
BetterOrEqual(best, score, b) == IF ScoreLeq(best[1], score) THEN <<score, <<b>> >> ELSE best

Better(best, score, b) == IF ScoreLess(best[1], score) THEN <<score, <<b>> >> ELSE best

\* "best = (0.0, None); for b in b_nodes: ..." of stage 2, from the k-th clause on
RECURSIVE BestFuzzy(_, _, _, _, _)
BestFuzzy(a, nodes, used, k, best) ==
    IF k > Len(nodes) THEN best
    ELSE IF nodes[k].clause_id \in used THEN BestFuzzy(a, nodes, used, k + 1, best)
    ELSE BestFuzzy(a, nodes, used, k + 1, Better(best, fuzzy_score(a, nodes[k]), nodes[k]))

\* the same loop of stage 3
RECURSIVE BestCosine(_, _, _, _, _)
BestCosine(a, nodes, used, k, best) ==
    IF k > Len(nodes) THEN best
    ELSE IF nodes[k].clause_id \in used THEN BestCosine(a, nodes, used, k + 1, best)
    ELSE BestCosine(a, nodes, used, k + 1, Better(best, cosine_score(a, nodes[k]), nodes[k]))

label_or_heading_fuzzy(a, nodes, used) == BestFuzzy(a, nodes, used, 1, <<Zero, <<>> >>)

semantic_cosine(a, nodes, used) == BestCosine(a, nodes, used, 1, <<Zero, <<>> >>)

\* "if score >= 0.45: candidates.append((score, b))" for an unused b
Candidate(score, b, used) ==
    IF b.clause_id \notin used /\ ScoreLeq(SPLIT_THRESHOLD, score) THEN << <<score, b>> >> ELSE <<>>

\* Stage 4: the candidates among the clauses from the k-th on
RECURSIVE SplitCandidates(_, _, _, _)
SplitCandidates(a, nodes, used, k) ==
    IF k > Len(nodes) THEN <<>>
    ELSE Candidate(cosine_score(a, nodes[k]), nodes[k], used)
         \o SplitCandidates(a, nodes, used, k + 1)

\* candidates.sort(reverse=True, key=lambda x: x[0]): a stable sort, so candidates
\* of equal score keep their order
RECURSIVE SortDescending(_)
SortDescending(cands) ==
    IF cands = <<>> THEN <<>>
    ELSE LET rest == SortDescending(SubSeq(cands, 1, Len(cands) - 1))
             x == cands[Len(cands)]
             \* x goes after every element whose score is not less than its own
             n == Cardinality({i \in 1..Len(rest) : ~ScoreLess(rest[i][1], x[1])})
         IN  SubSeq(rest, 1, n) \o <<x>> \o SubSeq(rest, n + 1, Len(rest))

FirstTwo(seq) == SubSeq(seq, 1, IF Len(seq) < 2 THEN Len(seq) ELSE 2)

\* "matched = candidate; reasons.append(AlignmentReason(method="title_exact", score=1.0))"
exact_match(s1) ==
    IF s1 = <<>> THEN <<>> ELSE <<s1[1], [method |-> "title_exact", score |-> One]>>

\* a stage that binds its best clause whatever the score
best_match_unchecked(method, best, threshold) ==
    IF best[2] # <<>> THEN <<best[2][1], [method |-> method, score |-> best[1]]>> ELSE <<>>

\* "if best[1] and best[0] >= threshold: matched = best[1]; reasons.append(...)"
best_match(method, best, threshold) ==
    IF best[2] # <<>> /\ ScoreLeq(threshold, best[1])
    THEN <<best[2][1], [method |-> method, score |-> best[1]]>>
    ELSE <<>>

\* the outcome of stages 1 to 3 for the old clause a: <<>> or <<matched, reason>>;
\* a stage runs "if not matched"
single_match(a, nodes, used) ==
    OrElse(exact_match(title_exact(a, nodes, used)),
           OrElse(best_match("label_or_heading_fuzzy",
                             label_or_heading_fuzzy(a, nodes, used), FUZZY_THRESHOLD),
                  best_match("semantic_cosine",
                             semantic_cosine(a, nodes, used), COSINE_THRESHOLD)))

\* "renumber_only = same_title and a_num and b_num and a_num != b_num"
renumber_only(pa, pb) ==
    /\ _normalize_label(pa.title) # <<>>
    /\ _normalize_label(pa.title) = _normalize_label(pb.title)
    /\ pa.num # <<>> /\ pb.num # <<>> /\ pa.num # pb.num

move_detected(a, matched) ==
    /\ a.path # matched.path
    /\ ~renumber_only(_extract_heading_parts(a), _extract_heading_parts(matched))

\* the entry of a clause bound by a single-target stage
matched_entry(a, m) ==
    [old_clause_id |-> a.clause_id,
     new_clause_ids |-> <<m[1].clause_id>>,
     confidence |-> m[2].score,
     reasons |-> <<m[2]>>,
     move_detected |-> move_detected(a, m[1])]

\* the entry of a clause bound to its best one or two split/merge candidates
split_entry(a, cands) ==
    [old_clause_id |-> a.clause_id,
     new_clause_ids |-> [i \in 1..Len(cands) |-> cands[i][2].clause_id],
     confidence |-> cands[1][1],
     reasons |-> <<[method |-> "split_merge", score |-> cands[1][1]]>>,
     move_detected |-> FALSE]

unmatched_entry(a) ==
    [old_clause_id |-> a.clause_id,
     new_clause_ids |-> <<>>,
     confidence |-> Zero,
     reasons |-> <<>>,
     move_detected |-> FALSE]

\* "if matched: ... else: ... if candidates: ... else: ..."
entry_of(a, m, cands) ==
    IF m # <<>> THEN matched_entry(a, m)
    ELSE IF cands # <<>> THEN split_entry(a, cands)
    ELSE unmatched_entry(a)

\* the AlignmentEntry appended for the old clause a
align_entry(a, nodes, used) ==
    entry_of(a, single_match(a, nodes, used),
             FirstTwo(SortDescending(SplitCandidates(a, nodes, used, 1))))

\* align_clauses: the flattening and the empty used set and entry list
AlignStart ==
    /\ align_pc = "start"
    /\ a_nodes' = _flatten(tree_a)
    /\ b_nodes' = _flatten(tree_b)
    /\ used_b' = {}
    /\ entries' = <<>>
    /\ a_pos' = 1
    /\ align_pc' = "loop"
    /\ UNCHANGED <<tree_a, tree_b, fnVars, compareVars>>

\* one iteration of "for a in a_nodes": the entry of a, and its targets marked used
AlignClause ==
    /\ align_pc = "loop"
    /\ a_pos <= Len(a_nodes)
    /\ \E e \in {align_entry(a_nodes[a_pos], b_nodes, used_b)} :
          /\ entries' = Append(entries, e)
          /\ used_b' = used_b \cup {e.new_clause_ids[i] : i \in 1..Len(e.new_clause_ids)}
    /\ a_pos' = a_pos + 1
    /\ UNCHANGED <<tree_a, tree_b, a_nodes, b_nodes, align_pc, fnVars, compareVars>>

\* "return AlignmentMap(entries=entries)"
AlignReturn ==
    /\ align_pc = "loop"
    /\ a_pos > Len(a_nodes)
    /\ align_pc' = "done"
    /\ UNCHANGED <<tree_a, tree_b, a_nodes, b_nodes, a_pos, used_b, entries, fnVars, compareVars>>

AlignNext == AlignStart \/ AlignClause \/ AlignReturn

(***************************************************************************)
(* Documents: the canonical blocks parse_upload hands to the segmenter     *)
(***************************************************************************)
Paragraph(text) == [text |-> text, block_type |-> "paragraph"]
TableCell(text) == [text |-> text, block_type |-> "table_cell"]

\* every document of at most max blocks drawn from lib
DocsOf(lib, max) == UNION {[1..n -> lib] : n \in 0..max}

MaxBlocks == 2

\* "a b c", and the table cells "c b a", "a a x", "a b c"
AlignLibrary == {Paragraph(<<"a", " ", "b", " ", "c">>), TableCell(<<"c", " ", "b", " ", "a">>), TableCell(<<"a", " ", "a", " ", "x">>), TableCell(<<"a", " ", "b", " ", "c">>)}

\* blocks with and without headings: "a b" as a paragraph and as a table cell, the
\* headings "1. Fee", "2. Fee", "IV. Fee", and "1. --", whose title has no word
\* character
SelfLibrary == {Paragraph(<<"a", " ", "b">>), TableCell(<<"a", " ", "b">>), Paragraph(<<"1", ".", " ", "F", "e", "e">>), Paragraph(<<"2", ".", " ", "F", "e", "e">>),
                Paragraph(<<"1", ".", " ", "-", "-">>), Paragraph(<<"I", "V", ".", " ", "F", "e", "e">>)}

\* the headings "1. Fee", "2. Fee", "IV. Fee", "V. Fee"
RenumberLibrary == {Paragraph(<<"1", ".", " ", "F", "e", "e">>), Paragraph(<<"2", ".", " ", "F", "e", "e">>), Paragraph(<<"I", "V", ".", " ", "F", "e", "e">>), Paragraph(<<"V", ".", " ", "F", "e", "e">>)}

\* old clauses "a a a b" and "a a a b b c d e"
CosineOldLibrary == {Paragraph(<<"a", " ", "a", " ", "a", " ", "b">>), Paragraph(<<"a", " ", "a", " ", "a", " ", "b", " ", "b", " ", "c", " ", "d", " ", "e">>)}

\* new clauses "a a b b b b b c c c d e", "b b b b c c c" and "a x", all table cells
CosineNewLibrary == {TableCell(<<"a", " ", "a", " ", "b", " ", "b", " ", "b", " ", "b", " ", "b", " ", "c", " ", "c", " ", "c", " ", "d", " ", "e">>), TableCell(<<"b", " ", "b", " ", "b", " ", "b", " ", "c", " ", "c", " ", "c">>), TableCell(<<"a", " ", "x">>)}

\* old table cells "ab c d e f" and "ab c d x y"
FuzzyOldLibrary ==
    {TableCell(<<"a", "b", " ", "c", " ", "d", " ", "e", " ", "f">>),
     TableCell(<<"a", "b", " ", "c", " ", "d", " ", "x", " ", "y">>)}

\* new paragraphs "ab c d xyz", "ab c d x y" and "ab c xyzwv": against
\* "ab c d e f" their first tokens have similarity 0.7, 0.8 and 0.5
FuzzyNewLibrary ==
    {Paragraph(<<"a", "b", " ", "c", " ", "d", " ", "x", "y", "z">>),
     Paragraph(<<"a", "b", " ", "c", " ", "d", " ", "x", " ", "y">>),
     Paragraph(<<"a", "b", " ", "c", " ", "x", "y", "z", "w", "v">>)}

\* old table cells "x x x y y y z w" and "x x x p p p"
SplitOldLibrary ==
    {TableCell(<<"x", " ", "x", " ", "x", " ", "y", " ", "y", " ", "y", " ", "z", " ", "w">>),
     TableCell(<<"x", " ", "x", " ", "x", " ", "p", " ", "p", " ", "p">>)}

\* new paragraphs "x x x p p p q r", "x x x p p p" and "x x x p p q": against
\* "x x x y y y z w" their cosine similarity is 9/20 = 0.45, 9/sqrt(360) and
\* 9/sqrt(280)
SplitNewLibrary ==
    {Paragraph(<<"x", " ", "x", " ", "x", " ", "p", " ", "p", " ", "p", " ", "q", " ", "r">>),
     Paragraph(<<"x", " ", "x", " ", "x", " ", "p", " ", "p", " ", "p">>),
     Paragraph(<<"x", " ", "x", " ", "x", " ", "p", " ", "p", " ", "q">>)}

TreesOf(lib) == {build_clause_tree(d) : d \in DocsOf(lib, MaxBlocks)}

AlignTrees == TreesOf(AlignLibrary)
SelfTrees == TreesOf(SelfLibrary)
RenumberTrees == TreesOf(RenumberLibrary)
CosineOldTrees == TreesOf(CosineOldLibrary)
CosineNewTrees == TreesOf(CosineNewLibrary)

NoFn == /\ fn_op = "none" /\ fn_before = <<>> /\ fn_after = <<>>
        /\ fn_result = <<>> /\ fn_pc = "idle"

\* ai_call before any request to the enrichment endpoint
NoCall ==
    [endpoint |-> "", run_id |-> <<>>, ai_enabled |-> FALSE, env |-> <<>>, compare |-> <<>>,
     status |-> 0, raised |-> FALSE, returned |-> <<>>, rendered |-> <<>>]

\* no call of _ai_insights has been made and AI_RUNS is empty
NoAi == AI_RUNS = <<>> /\ ai_call = NoCall

\* no request is being served and RUNS is empty
NoCompare == requests = <<>> /\ RUNS = <<>> /\ NoAi

AlignInitWith(trees_a, trees_b) ==
    /\ tree_a \in trees_a
    /\ tree_b \in trees_b
    /\ a_nodes = <<>> /\ b_nodes = <<>>
    /\ a_pos = 0
    /\ used_b = {}
    /\ entries = <<>>
    /\ align_pc = "start"
    /\ NoFn
    /\ NoCompare

\* any old document against any new document
AlignInit == AlignInitWith(AlignTrees, AlignTrees)
SpecAlign == AlignInit /\ [][AlignNext]_vars

\* a document against an identical copy of itself
SelfAlignInit == AlignInitWith(SelfTrees, SelfTrees) /\ tree_b = tree_a
SpecSelfAlign == SelfAlignInit /\ [][AlignNext]_vars

\* renumbered headings
RenumberInit == AlignInitWith(RenumberTrees, RenumberTrees)
SpecRenumber == RenumberInit /\ [][AlignNext]_vars

\* clause pairs around the 0.55 and 0.45 thresholds
CosineInit == AlignInitWith(CosineOldTrees, CosineNewTrees)
SpecCosine == CosineInit /\ [][AlignNext]_vars

\* clauses of different keys with fuzzy scores at, above and below 0.70
FuzzyInit == AlignInitWith(TreesOf(FuzzyOldLibrary), TreesOf(FuzzyNewLibrary))
SpecFuzzy == FuzzyInit /\ [][AlignNext]_vars

\* clauses of different keys with cosine similarities from 0.45 to 0.55
SplitInit == AlignInitWith(TreesOf(SplitOldLibrary), TreesOf(SplitNewLibrary))
SpecSplit == SplitInit /\ [][AlignNext]_vars

(***************************************************************************)
(* Properties of align_clauses                                             *)
(***************************************************************************)
\* the targets of all entries, in entry order
RECURSIVE TargetsOf(_)
TargetsOf(es) ==
    IF es = <<>> THEN <<>> ELSE Head(es).new_clause_ids \o TargetsOf(Tail(es))

\* the used set when the loop reaches the i-th old clause
UsedBefore(i) ==
    LET ids == TargetsOf(SubSeq(entries, 1, i - 1))
    IN  {ids[k] : k \in 1..Len(ids)}

MethodOf(e) == IF e.reasons = <<>> THEN "unmatched" ELSE e.reasons[1].method

\* the new clause with the given id
NewClause(id) == CHOOSE n \in {b_nodes[k] : k \in 1..Len(b_nodes)} : n.clause_id = id

\* C1: a new-tree clause id is a target at most once in the whole map: in at
\* most one entry, and at most once inside it.
C1_TargetsInjective ==
    LET ids == TargetsOf(entries)
    IN  \A i, j \in 1..Len(ids) : i # j => ids[i] # ids[j]

\* C1 witness: two old clauses compete for the same new clause; the later one,
\* which alone would have been bound to a target of the earlier one, is bound
\* to another clause.
C1_Witness ==
    /\ align_pc = "done"
    /\ \E i, j \in 1..Len(entries) :
          /\ i < j
          /\ entries[i].new_clause_ids # <<>>
          /\ entries[j].new_clause_ids # <<>>
          /\ LET alone == align_entry(a_nodes[j], b_nodes, {}).new_clause_ids
             IN  \E k \in 1..Len(alone), m \in 1..Len(entries[i].new_clause_ids) :
                     alone[k] = entries[i].new_clause_ids[m]

\* C2: aligning a tree against an identical copy of itself yields one entry per
\* non-root clause, each targeting the clause of the same id with confidence
\* 1.0, the single reason title_exact and move_detected = false.
C2_SelfAlignment ==
    (align_pc = "done" /\ tree_b = tree_a) =>
        /\ Len(entries) = Len(tree_a.root.children)
        /\ \A i \in 1..Len(entries) :
              entries[i] =
                  [old_clause_id |-> tree_a.root.children[i].clause_id,
                   new_clause_ids |-> <<tree_a.root.children[i].clause_id>>,
                   confidence |-> One,
                   reasons |-> <<[method |-> "title_exact", score |-> One]>>,
                   move_detected |-> FALSE]

\* C3: the map holds exactly one entry for each non-root clause of the old tree,
\* in old-tree document order, and the id "root" is neither an old_clause_id
\* nor a target.
C3_OneEntryPerOldClause ==
    LET old == tree_a.root.children
        ids == TargetsOf(entries)
    IN  /\ Len(entries) <= Len(old)
        /\ \A i \in 1..Len(entries) : entries[i].old_clause_id = old[i].clause_id
        /\ align_pc = "done" => Len(entries) = Len(old)
        /\ \A i \in 1..Len(entries) : entries[i].old_clause_id # RootId
        /\ \A k \in 1..Len(ids) : ids[k] # RootId

\* C3 witness: a finished map of at least two entries, one bound and one unmatched
C3_Witness ==
    /\ align_pc = "done"
    /\ Len(entries) >= 2
    /\ \E i, j \in 1..Len(entries) :
          entries[i].new_clause_ids # <<>> /\ entries[j].new_clause_ids = <<>>

\* C4: every entry has 0, 1 or 2 targets, 2 only when its method is split_merge,
\* and a confidence between 0 and 1 inclusive.
C4_EntryShape ==
    \A i \in 1..Len(entries) :
        /\ Len(entries[i].new_clause_ids) \in {0, 1, 2}
        /\ Len(entries[i].new_clause_ids) = 2 => MethodOf(entries[i]) = "split_merge"
        /\ ScoreLeq(Zero, entries[i].confidence)
        /\ ScoreLeq(entries[i].confidence, One)

\* the term-frequency cosine similarity of two clauses, as a real number
TfCosine(a, b) ==
    LET va == _bag_vector(BodyText(a))
        vb == _bag_vector(BodyText(b))
    IN  IF DOMAIN va = {} \/ DOMAIN vb = {} THEN Zero
        ELSE Score(Dot(va, vb) * Dot(va, vb), NormSq(va) * NormSq(vb), 0)

\* stages 1 and 2 leave the i-th old clause unbound
UnboundAfterFuzzy(i) ==
    LET s2 == label_or_heading_fuzzy(a_nodes[i], b_nodes, UsedBefore(i))
    IN  /\ title_exact(a_nodes[i], b_nodes, UsedBefore(i)) = <<>>
        /\ ~(s2[2] # <<>> /\ ScoreLeq(FUZZY_THRESHOLD, s2[1]))

\* C5: an old clause that stages 1 and 2 leave unbound is bound with method
\* semantic_cosine to the unused new clause of highest term-frequency cosine
\* similarity exactly when that similarity is >= 0.55 (a pair of similarity
\* exactly 0.55 is bound, a pair below is not).
C5_CosineThreshold ==
    \A i \in 1..Len(entries) :
        LET unused == {k \in 1..Len(b_nodes) : b_nodes[k].clause_id \notin UsedBefore(i)}
            sim == [k \in unused |-> TfCosine(a_nodes[i], b_nodes[k])]
            top == {k \in unused : \A m \in unused : ScoreLeq(sim[m], sim[k])}
        IN  UnboundAfterFuzzy(i) =>
                ((/\ MethodOf(entries[i]) = "semantic_cosine"
                  /\ \E k \in top : entries[i].new_clause_ids = <<b_nodes[k].clause_id>>)
                 <=> (\E k \in top : ScoreLeq(COSINE_THRESHOLD, sim[k])))

\* the heading of a clause as the segmenter reads it
SegmenterParts(n) == SegmenterHeading(FirstLine(n.text))

\* a pair with the same normalized heading title whose numbering tokens differ
PureRenumbering(a, b) ==
    /\ SegmenterParts(a).ok /\ SegmenterParts(b).ok
    /\ _normalize_label(SegmenterParts(a).title) # <<>>
    /\ _normalize_label(SegmenterParts(a).title) = _normalize_label(SegmenterParts(b).title)
    /\ SegmenterParts(a).num # SegmenterParts(b).num

\* C6: an entry bound by a single-target stage has move_detected true exactly
\* when the paths differ and the pair is not a pure renumbering, for every
\* numbering style the segmenter accepts as a heading.
C6_MoveDetection ==
    \A i \in 1..Len(entries) :
        MethodOf(entries[i]) \in {"title_exact", "label_or_heading_fuzzy", "semantic_cosine"} =>
            LET a == a_nodes[i]
                b == NewClause(entries[i].new_clause_ids[1])
            IN  entries[i].move_detected = (a.path # b.path /\ ~PureRenumbering(a, b))

\* the positions in the new tree of the clauses with the match key of the
\* i-th old clause, and those of them not used when the loop reaches it
WithKey(i) == {k \in 1..Len(b_nodes) : _match_key(b_nodes[k]) = _match_key(a_nodes[i])}

FreeWithKey(i) == {k \in WithKey(i) : b_nodes[k].clause_id \notin UsedBefore(i)}

\* the key of the i-th old clause is a key of the index built from the new tree
KeyInIndex(i) == _match_key(a_nodes[i]) # <<>> /\ WithKey(i) # {}

\* the i-th entry binds the new clause at position k through title_exact
\* alone, and that clause is marked used
BoundByTitle(i, k) ==
    /\ entries[i].new_clause_ids = <<b_nodes[k].clause_id>>
    /\ entries[i].reasons = <<[method |-> "title_exact", score |-> One]>>
    /\ entries[i].confidence = One
    /\ b_nodes[k].clause_id \in used_b

\* C17: every old clause whose match key is present in the index built from
\* the new tree's keys is bound to the first not-yet-used new clause with
\* that key (in new-tree document order) with the single reason title_exact
\* of score 1.0, that clause is marked used, and no later stage is applied.
C17_KeyedClauseBound ==
    \A i \in 1..Len(entries) :
        KeyInIndex(i) =>
            \E k \in FreeWithKey(i) :
                /\ \A m \in FreeWithKey(i) : k <= m
                /\ BoundByTitle(i, k)

\* C17, amended: the same for every old clause whose match key is present in
\* the index and for which at least one new clause with that key is not yet
\* used when the old clause is processed.
C17_KeyedClauseBoundWhenFree ==
    \A i \in 1..Len(entries) :
        (KeyInIndex(i) /\ FreeWithKey(i) # {}) =>
            \E k \in FreeWithKey(i) :
                /\ \A m \in FreeWithKey(i) : k <= m
                /\ BoundByTitle(i, k)

\* C17 witness: an old clause whose key has two candidates, the first of them
\* used by an earlier old clause, is bound to the second
C17_Witness ==
    \E i \in 1..Len(entries) :
        /\ KeyInIndex(i)
        /\ FreeWithKey(i) # {}
        /\ WithKey(i) \ FreeWithKey(i) # {}
        /\ \E k \in FreeWithKey(i) : BoundByTitle(i, k)

(***************************************************************************)
(* Pure functions of the comparison pipeline. Each is called on inputs     *)
(* fn_before, fn_after and leaves what it returns in fn_result; the        *)
(* aligner is idle meanwhile.                                              *)
(***************************************************************************)
None == <<>>
Some(x) == <<x>>

NoAlign ==
    /\ tree_a = build_clause_tree(<<>>) /\ tree_b = build_clause_tree(<<>>)
    /\ a_nodes = <<>> /\ b_nodes = <<>>
    /\ a_pos = 0
    /\ used_b = {}
    /\ entries = <<>>
    /\ align_pc = "idle"

FnInit(op, befores, afters) ==
    /\ NoAlign
    /\ fn_op = op
    /\ fn_before \in befores
    /\ fn_after \in afters
    /\ fn_result = <<>>
    /\ fn_pc = "call"
    /\ NoCompare

\* the call of a function f(before, after) and its return
FnCall(op, f(_, _)) ==
    /\ fn_pc = "call"
    /\ fn_op = op
    /\ fn_result' = f(fn_before, fn_after)
    /\ fn_pc' = "done"
    /\ UNCHANGED <<alignVars, fn_op, fn_before, fn_after, compareVars>>

\* every text of at most max characters over an alphabet
TextsOf(alphabet, max) == UNION {[1..n -> alphabet] : n \in 0..max}

\* every list of at most max words of a library, joined by single spaces
PhrasesOf(lib, max) == {JoinWith(ws, <<" ">>) : ws \in DocsOf(lib, max)}

(***************************************************************************)
(* diff.py: the word-level diff                                            *)
(***************************************************************************)
\* re.findall(r'\b\w+\b|\s+|[^\w\s]', text) from index i on: maximal runs of
\* word characters, maximal runs of whitespace, any other character alone
RECURSIVE FindWordTokens(_, _)
FindWordTokens(t, i) ==
    IF i > Len(t) THEN <<>>
    ELSE LET e == IF t[i] \in WordChar THEN SkipClass(t, i, WordChar)
                  ELSE IF t[i] \in SpaceChar THEN SkipClass(t, i, SpaceChar)
                  ELSE i + 1
         IN  <<Slice(t, i, e)>> \o FindWordTokens(t, e)

\* x.isspace() or x in ''
IsJunkWord(x) == (x # <<>> /\ \A k \in 1..Len(x) : x[k] \in SpaceChar) \/ x = <<>>

\* sum(len(word) for word in words[lo:hi]), positions 0-based
RECURSIVE CharLen(_, _, _)
CharLen(words, lo, hi) ==
    IF lo >= hi THEN 0 ELSE Len(At(words, lo)) + CharLen(words, lo + 1, hi)

\* the spans of words[lo:hi], the first at character offset pos
RECURSIVE SegmentSpans(_, _, _, _, _)
SegmentSpans(words, lo, hi, pos, type) ==
    IF lo >= hi THEN <<>>
    ELSE <<[text |-> At(words, lo), offset |-> pos, type |-> type]>>
         \o SegmentSpans(words, lo + 1, hi, pos + Len(At(words, lo)), type)

\* a loop that also keeps the words of a 'replace' opcode out of before_spans
before_segment_spans_skipping_replace(tag, words, i1, i2, pos) ==
    IF tag \in {"insert", "replace"} THEN <<>>
    ELSE SegmentSpans(words, i1, i2, pos, IF tag = "delete" THEN "removed" ELSE "unchanged")

\* "for word in before_segment": the spans one opcode adds to before_spans
before_segment_spans(tag, words, i1, i2, pos) ==
    IF tag = "insert" THEN <<>>
    ELSE SegmentSpans(words, i1, i2, pos, IF tag = "delete" THEN "removed" ELSE "unchanged")

\* "for word in after_segment": the spans one opcode adds to after_spans
after_segment_spans(tag, words, j1, j2, pos) ==
    IF tag = "delete" THEN <<>>
    ELSE SegmentSpans(words, j1, j2, pos, IF tag = "insert" THEN "added" ELSE "unchanged")

\* "for tag, i1, i2, j1, j2 in matcher.get_opcodes()"
RECURSIVE WordDiffLoop(_, _, _, _, _)
WordDiffLoop(ops, before_words, after_words, before_char_pos, after_char_pos) ==
    IF ops = <<>> THEN [before_spans |-> <<>>, after_spans |-> <<>>]
    ELSE LET op == Head(ops)
             rest == WordDiffLoop(Tail(ops), before_words, after_words,
                                  before_char_pos + CharLen(before_words, op[2], op[3]),
                                  after_char_pos + CharLen(after_words, op[4], op[5]))
         IN  [before_spans |->
                  before_segment_spans(op[1], before_words, op[2], op[3], before_char_pos)
                  \o rest.before_spans,
              after_spans |->
                  after_segment_spans(op[1], after_words, op[4], op[5], after_char_pos)
                  \o rest.after_spans]

\* the opcodes of SequenceMatcher(isjunk, before_words, after_words)
WordOpcodes(before, after) ==
    LET before_words == FindWordTokens(before, 1)
        after_words == FindWordTokens(after, 1)
        junk == {after_words[k] : k \in {n \in 1..Len(after_words) : IsJunkWord(after_words[n])}}
    IN  get_opcodes(before_words, after_words, junk)

_compute_word_diff_spans(before, after) ==
    WordDiffLoop(WordOpcodes(before, after),
                 FindWordTokens(before, 1), FindWordTokens(after, 1), 0, 0)

WordDiff == FnCall("word_diff", _compute_word_diff_spans)

WordDiffNext == WordDiff

MaxTextLen == 4

\* a word character, a whitespace character and a punctuation character
WordDiffAlphabet == {"a", " ", "."}

WordDiffInit ==
    FnInit("word_diff", TextsOf(WordDiffAlphabet, MaxTextLen), TextsOf(WordDiffAlphabet, MaxTextLen))

SpecWordDiff == WordDiffInit /\ [][WordDiffNext]_vars

\* the texts of a list of spans, in order
SpanTexts(spans) == [k \in 1..Len(spans) |-> spans[k].text]

\* the offsets a list of texts has when the texts are laid end to end from 0
SpanOffsetsExact(spans) ==
    \A k \in 1..Len(spans) : spans[k].offset = CharLen(SpanTexts(spans), 0, k - 1)

\* C7: concatenating the text of the before_spans, in order, reproduces the
\* before text and concatenating the after_spans reproduces the after text;
\* the spans are the words of the text, none dropped and none duplicated,
\* whatever opcode covers them.
C7_Reconstruction ==
    (fn_op = "word_diff" /\ fn_pc = "done") =>
        /\ JoinWith(SpanTexts(fn_result.before_spans), <<>>) = fn_before
        /\ JoinWith(SpanTexts(fn_result.after_spans), <<>>) = fn_after
        /\ SpanTexts(fn_result.before_spans) = FindWordTokens(fn_before, 1)
        /\ SpanTexts(fn_result.after_spans) = FindWordTokens(fn_after, 1)
        /\ SpanOffsetsExact(fn_result.before_spans)
        /\ SpanOffsetsExact(fn_result.after_spans)

\* C7 witness: a diff whose opcodes hold a replace, and a delete or an insert
C7_Witness ==
    /\ fn_op = "word_diff" /\ fn_pc = "done"
    /\ LET ops == WordOpcodes(fn_before, fn_after)
       IN  /\ \E k \in 1..Len(ops) : ops[k][1] = "replace"
           /\ \E k \in 1..Len(ops) : ops[k][1] \in {"delete", "insert"}
           /\ \E k \in 1..Len(ops) : ops[k][1] = "equal"

(***************************************************************************)
(* rules_engine.py: the modal-shift detector                               *)
(***************************************************************************)
MODAL_SHIFTS ==
    << <<"may", "shall", "Obligation strengthened">>,
       <<"may", "must", "Obligation strengthened">>,
       <<"may", "will", "Obligation strengthened">>,
       <<"shall", "may", "Obligation weakened">>,
       <<"must", "may", "Obligation weakened">>,
       <<"will", "may", "Obligation weakened">> >>

\* the characters of the modal verbs
ModalChars ==
    ("may" :> <<"m", "a", "y">>) @@ ("shall" :> <<"s", "h", "a", "l", "l">>) @@
    ("must" :> <<"m", "u", "s", "t">>) @@ ("will" :> <<"w", "i", "l", "l">>)

\* \b of Python's re before index i of t: exactly one of t[i-1], t[i] is a word character
WordBoundary(t, i) ==
    ((i - 1 \in 1..Len(t)) /\ t[i - 1] \in WordChar) # ((i \in 1..Len(t)) /\ t[i] \in WordChar)

\* a search for the modal anywhere in the text, inside longer words too
has_modal_substring(text, modal) ==
    \E i \in 1..Len(text) : StartsWithAt(text, i, ModalChars[modal])

\* has_modal(text, modal): re.search(rf"\b{modal}\b", text) is not None
has_modal(text, modal) ==
    \E i \in 1..Len(text) :
        /\ StartsWithAt(text, i, ModalChars[modal])
        /\ WordBoundary(text, i)
        /\ WordBoundary(text, i + Len(ModalChars[modal]))

\* "for frm, to, rationale in MODAL_SHIFTS" from the k-th pair on
RECURSIVE ModalLoop(_, _, _, _, _)
ModalLoop(before, after, b, a, k) ==
    IF k > Len(MODAL_SHIFTS) THEN <<>>
    ELSE (IF has_modal(b, MODAL_SHIFTS[k][1]) /\ has_modal(a, MODAL_SHIFTS[k][2])
             /\ ~has_modal(a, MODAL_SHIFTS[k][1])
          THEN <<[clause_id |-> <<>>, category |-> "Obligation Strength", severity |-> "high",
                  rationale |-> MODAL_SHIFTS[k][3],
                  exact_diff_span |-> [before |-> before, after |-> after]]>>
          ELSE <<>>)
         \o ModalLoop(before, after, b, a, k + 1)

_find_modal_shift(before, after) == ModalLoop(before, after, Lower(before), Lower(after), 1)

ModalShift == FnCall("modal_shift", _find_modal_shift)

ModalNext == ModalShift

MaxWords == 2

\* "may", "Shall", "must", "will", and words that merely contain a modal:
\* "dismay", "MAY_be." (the underscore is a word character)
ModalLibrary ==
    {<<"m", "a", "y">>, <<"S", "h", "a", "l", "l">>, <<"m", "u", "s", "t">>,
     <<"w", "i", "l", "l">>, <<"d", "i", "s", "m", "a", "y">>,
     <<"M", "A", "Y", "_", "b", "e", ".">>}

ModalInit ==
    FnInit("modal_shift", PhrasesOf(ModalLibrary, MaxWords), PhrasesOf(ModalLibrary, MaxWords))

SpecModal == ModalInit /\ [][ModalNext]_vars

\* the words of a text: its maximal runs of word characters, lowercased
WordsIn(text) == LET ws == FindWords(Lower(text), 1) IN {ws[k] : k \in 1..Len(ws)}

\* the pair (from, to) of the modal table fires
ShiftFires(k) ==
    /\ ModalChars[MODAL_SHIFTS[k][1]] \in WordsIn(fn_before)
    /\ ModalChars[MODAL_SHIFTS[k][2]] \in WordsIn(fn_after)
    /\ ModalChars[MODAL_SHIFTS[k][1]] \notin WordsIn(fn_after)

\* C8: the modal-shift detector emits, for each (from, to) pair of the modal
\* table in declared order, one finding of category "Obligation Strength" and
\* severity "high" exactly when before contains the from-modal as a whole word
\* (case-insensitive), after contains the to-modal as a whole word and after
\* no longer contains the from-modal; it emits nothing else.
C8_ModalShift ==
    (fn_op = "modal_shift" /\ fn_pc = "done") =>
        LET firing == {k \in 1..Len(MODAL_SHIFTS) : ShiftFires(k)}
            \* the index in the table of the n-th finding
            pairOf == [n \in 1..Len(fn_result) |->
                          CHOOSE k \in firing : Cardinality({m \in firing : m < k}) = n - 1]
        IN  /\ Len(fn_result) = Cardinality(firing)
            /\ \A n \in 1..Len(fn_result) :
                  /\ fn_result[n].category = "Obligation Strength"
                  /\ fn_result[n].severity = "high"
                  /\ fn_result[n].rationale = MODAL_SHIFTS[pairOf[n]][3]
                  /\ fn_result[n].exact_diff_span = [before |-> fn_before, after |-> fn_after]

\* C8 witness: "may" became "Shall" next to a word that merely contains "may":
\* exactly one finding
C8_Witness ==
    /\ fn_op = "modal_shift" /\ fn_pc = "done"
    /\ Len(fn_result) = 1
    /\ fn_result[1].rationale = "Obligation strengthened"
    /\ <<"m", "a", "y">> \in WordsIn(fn_before)
    /\ <<"s", "h", "a", "l", "l">> \in WordsIn(fn_after)
    /\ has_modal_substring(Lower(fn_after), "may")

(***************************************************************************)
(* numeric.py: numeric literals and extract_numeric_deltas                 *)
(***************************************************************************)
\* pattern.findall(t) from index i on, for a pattern without groups whose
\* match at index i ends before MatchEnd(t, i) (0: no match at i)
RECURSIVE FindAll(_, _, _)
FindAll(MatchEnd(_, _), t, i) ==
    IF i > Len(t) THEN <<>>
    ELSE IF MatchEnd(t, i) > i
         THEN <<Slice(t, i, MatchEnd(t, i))>> \o FindAll(MatchEnd, t, MatchEnd(t, i))
         ELSE FindAll(MatchEnd, t, i + 1)

IsDigitAt(t, i) == i \in 1..Len(t) /\ t[i] \in Digit
IsCharAt(t, i, c) == i \in 1..Len(t) /\ t[i] = c

\* CURRENCY_RE = \$\s?\d[\d,]*(?:\.\d+)?
CurrencyEnd(t, i) ==
    LET d == IF i + 1 \in 1..Len(t) /\ t[i + 1] \in SpaceChar THEN i + 2 ELSE i + 1
        e == SkipClass(t, d + 1, Digit \cup {","})
    IN  IF ~(IsCharAt(t, i, "$") /\ IsDigitAt(t, d)) THEN 0
        ELSE IF IsCharAt(t, e, ".") /\ IsDigitAt(t, e + 1) THEN SkipClass(t, e + 1, Digit)
        ELSE e

\* PERCENT_RE = \b\d+(?:\.\d+)?%\b
PercentEnd(t, i) ==
    LET e == SkipClass(t, i, Digit)
        f == IF IsCharAt(t, e, ".") /\ IsDigitAt(t, e + 1) THEN SkipClass(t, e + 1, Digit) ELSE e
    IN  IF IsDigitAt(t, i) /\ WordBoundary(t, i) /\ IsCharAt(t, f, "%") /\ WordBoundary(t, f + 1)
        THEN f + 1 ELSE 0

\* the units of DURATION_RE, each with its optional plural "s"
DurationUnits == {<<"d", "a", "y">>, <<"m", "o", "n", "t", "h">>, <<"y", "e", "a", "r">>}

\* DURATION_RE = \b\d+\s+(?:days?|months?|years?)\b, re.IGNORECASE
DurationEnd(t, i) ==
    LET e == SkipClass(t, i, Digit)
        w == SkipClass(t, e, SpaceChar)
        units == {u \in DurationUnits : StartsWithAt(Lower(t), w, u)}
        u == w + Len(CHOOSE x \in units : TRUE)
    IN  IF ~(IsDigitAt(t, i) /\ WordBoundary(t, i) /\ w > e /\ units # {}) THEN 0
        ELSE IF (IsCharAt(t, u, "s") \/ IsCharAt(t, u, "S")) /\ WordBoundary(t, u + 1) THEN u + 1
        ELSE IF WordBoundary(t, u) THEN u
        ELSE 0

\* \b\d{1,2}/\d{1,2}/\d{2,4}\b
SlashDateEnd(t, i) ==
    LET e1 == SkipClass(t, i, Digit)
        e2 == SkipClass(t, e1 + 1, Digit)
        e3 == SkipClass(t, e2 + 1, Digit)
    IN  IF /\ IsDigitAt(t, i) /\ WordBoundary(t, i)
           /\ e1 - i \in 1..2 /\ IsCharAt(t, e1, "/")
           /\ e2 - (e1 + 1) \in 1..2 /\ IsCharAt(t, e2, "/")
           /\ e3 - (e2 + 1) \in 2..4 /\ WordBoundary(t, e3)
        THEN e3 ELSE 0

\* \b\d{4}-\d{2}-\d{2}\b
IsoDateEnd(t, i) ==
    LET e1 == SkipClass(t, i, Digit)
        e2 == SkipClass(t, e1 + 1, Digit)
        e3 == SkipClass(t, e2 + 1, Digit)
    IN  IF /\ IsDigitAt(t, i) /\ WordBoundary(t, i)
           /\ e1 - i = 4 /\ IsCharAt(t, e1, "-")
           /\ e2 - (e1 + 1) = 2 /\ IsCharAt(t, e2, "-")
           /\ e3 - (e2 + 1) = 2 /\ WordBoundary(t, e3)
        THEN e3 ELSE 0

\* DATE_RE: the slash form, else the ISO form
DateEnd(t, i) == IF SlashDateEnd(t, i) > 0 THEN SlashDateEnd(t, i) ELSE IsoDateEnd(t, i)

CurrencyLiterals(t) == FindAll(CurrencyEnd, t, 1)
PercentLiterals(t) == FindAll(PercentEnd, t, 1)
DurationLiterals(t) == FindAll(DurationEnd, t, 1)
DateLiterals(t) == FindAll(DateEnd, t, 1)

\* "b_vals = CURRENCY_RE.findall(..) + PERCENT_RE.findall(..) + DURATION_RE.findall(..) + DATE_RE.findall(..)"
NumericValues(t) ==
    CurrencyLiterals(t) \o PercentLiterals(t) \o DurationLiterals(t) \o DateLiterals(t)

Contains(s, c) == \E k \in 1..Len(s) : s[k] = c

DigitValue ==
    ("0" :> 0) @@ ("1" :> 1) @@ ("2" :> 2) @@ ("3" :> 3) @@ ("4" :> 4) @@
    ("5" :> 5) @@ ("6" :> 6) @@ ("7" :> 7) @@ ("8" :> 8) @@ ("9" :> 9)

\* the decimal number a string of digits and at most one "." denotes, as the
\* fraction num / den in lowest power of ten; None for any other string
RECURSIVE DecimalFrom(_, _, _, _)
DecimalFrom(s, k, num, den) ==
    IF k > Len(s)
    THEN IF den > 1 /\ num % 10 = 0 THEN DecimalFrom(s, k, num \div 10, den \div 10)
         ELSE Some([num |-> num, den |-> IF den = 0 THEN 1 ELSE den])
    ELSE IF s[k] \in Digit
         THEN DecimalFrom(s, k + 1, num * 10 + DigitValue[s[k]], den * 10)
    ELSE IF s[k] = "." /\ den = 0 THEN DecimalFrom(s, k + 1, num, 1)
    ELSE None

\* _normalize(value): float() of the value without "$", "," and "%"; None on ValueError
_normalize(value) ==
    LET cleaned == Strip(SelectSeq(value, LAMBDA c : c \notin {"$", ",", "%"}))
    IN  IF cleaned = <<>> \/ cleaned = <<".">> THEN None ELSE DecimalFrom(cleaned, 1, 0, 0)

\* "before_val = b_vals[0] if b_vals else None" and the same for after_val
first_literals(b_vals, a_vals) ==
    [before_val |-> IF b_vals = <<>> THEN None ELSE Some(b_vals[1]),
     after_val |-> IF a_vals = <<>> THEN None ELSE Some(a_vals[1])]

extract_numeric_deltas(before, after) ==
    LET b_vals == NumericValues(before)
        a_vals == NumericValues(after)
        v == first_literals(b_vals, a_vals)
        unit == IF v.before_val # None /\ Contains(v.before_val[1], "$") THEN "currency"
                ELSE IF v.before_val # None /\ Contains(v.before_val[1], "%") THEN "percent"
                ELSE "duration"
    IN  IF b_vals = a_vals THEN <<>>
        ELSE <<[value_before |-> v.before_val,
                value_after |-> v.after_val,
                normalized |-> IF v.after_val # None THEN _normalize(v.after_val[1])
                               ELSE IF v.before_val # None THEN _normalize(v.before_val[1])
                               ELSE None,
                unit |-> unit,
                span |-> [before |-> before, after |-> after]]>>

NumericDeltas == FnCall("numeric_deltas", extract_numeric_deltas)

NumericNext == NumericDeltas

MaxLiterals == 2

\* "$100", "$500", "$7.50", "10%", "10%x", "30 days", "1/2/2020"
NumericLibrary ==
    {<<"$", "1", "0", "0">>, <<"$", "5", "0", "0">>, <<"$", "7", ".", "5", "0">>,
     <<"1", "0", "%">>, <<"1", "0", "%", "x">>, <<"3", "0", " ", "d", "a", "y", "s">>,
     <<"1", "/", "2", "/", "2", "0", "2", "0">>}

NumericInit ==
    FnInit("numeric_deltas", PhrasesOf(NumericLibrary, MaxLiterals), PhrasesOf(NumericLibrary, MaxLiterals))

SpecNumeric == NumericInit /\ [][NumericNext]_vars

\* exactly one currency literal differs between the two texts, the k-th, and
\* every other literal is unchanged
OneCurrencyDiffers(k) ==
    LET cb == CurrencyLiterals(fn_before)
        ca == CurrencyLiterals(fn_after)
    IN  /\ Len(cb) = Len(ca)
        /\ k \in 1..Len(cb)
        /\ cb[k] # ca[k]
        /\ \A m \in 1..Len(cb) : m # k => cb[m] = ca[m]
        /\ PercentLiterals(fn_before) = PercentLiterals(fn_after)
        /\ DurationLiterals(fn_before) = DurationLiterals(fn_after)
        /\ DateLiterals(fn_before) = DateLiterals(fn_after)

\* C9: when exactly one currency literal differs between before and after,
\* extract_numeric_deltas returns a delta whose value_before is that literal as
\* written in before, whose value_after is that literal as written in after and
\* whose unit is "currency", whatever other unchanged literals the texts hold.
C9_CurrencyDelta ==
    (fn_op = "numeric_deltas" /\ fn_pc = "done") =>
        \A k \in 1..Len(CurrencyLiterals(fn_before)) :
            OneCurrencyDiffers(k) =>
                \E n \in 1..Len(fn_result) :
                    /\ fn_result[n].value_before = Some(CurrencyLiterals(fn_before)[k])
                    /\ fn_result[n].value_after = Some(CurrencyLiterals(fn_after)[k])
                    /\ fn_result[n].unit = "currency"

(***************************************************************************)
(* diff_engine.py: diff_tables                                             *)
(***************************************************************************)
\* the keys of {(c.get("row"), c.get("col")): c for c in cells}
CellKeys(cells) == {<<cells[k].row, cells[k].col>> : k \in 1..Len(cells)}

\* the dict {(row, col): c for c in cells}: a later cell replaces an earlier
\* one at the same coordinate
CellMap(cells) ==
    [key \in CellKeys(cells) |->
        cells[CHOOSE k \in 1..Len(cells) :
                  /\ <<cells[k].row, cells[k].col>> = key
                  /\ \A m \in (k + 1)..Len(cells) : <<cells[m].row, cells[m].col>> # key]]

\* dict.get(key)
GetCell(map, key) == IF key \in DOMAIN map THEN Some(map[key]) ELSE None

\* a test that looks only at which side holds the coordinate
cell_changed_presence_only(b, a) == b = None \/ a = None

\* "if not b or not a: ... elif b.get("text") != a.get("text"): ..."
cell_changed(b, a) == b = None \/ a = None \/ b[1].text # a[1].text

\* "for key in keys", in the order the set is iterated
RECURSIVE TableLoop(_, _, _)
TableLoop(order, before_map, after_map) ==
    IF order = <<>> THEN <<>>
    ELSE LET key == Head(order)
             b == GetCell(before_map, key)
             a == GetCell(after_map, key)
         IN  (IF cell_changed(b, a)
              THEN <<[row |-> key[1], col |-> key[2], before |-> b, after |-> a]>>
              ELSE <<>>)
             \o TableLoop(Tail(order), before_map, after_map)

\* the orders in which a set can be iterated
Orders(S) == {o \in [1..Cardinality(S) -> S] : \A i, j \in 1..Cardinality(S) : i # j => o[i] # o[j]}

\* diff_tables(before_cells, after_cells), the set of keys iterated in some order
DiffTables ==
    /\ fn_pc = "call"
    /\ fn_op = "diff_tables"
    /\ \E order \in Orders(CellKeys(fn_before) \cup CellKeys(fn_after)) :
           fn_result' = TableLoop(order, CellMap(fn_before), CellMap(fn_after))
    /\ fn_pc' = "done"
    /\ UNCHANGED <<alignVars, fn_op, fn_before, fn_after, compareVars>>

TablesNext == DiffTables

MaxCells == 2

\* the cells _table_cells builds: row, col and text of a table_cell block
CellLibrary == [row : {0}, col : {0, 1}, text : {"A", "B"}]

TablesInit ==
    FnInit("diff_tables", DocsOf(CellLibrary, MaxCells), DocsOf(CellLibrary, MaxCells))

SpecTables == TablesInit /\ [][TablesNext]_vars

\* the changes of the result at a coordinate
ChangesAt(key) == {n \in 1..Len(fn_result) : <<fn_result[n].row, fn_result[n].col>> = key}

\* C10: diff_tables returns exactly one change per (row, col) coordinate that
\* is present in only one of the two cell lists (the absent side reported as
\* missing) or present in both with different text, and no change for a
\* coordinate whose text is equal in both versions. The cell of a list at a
\* coordinate is the last one the list holds there.
C10_TableChanges ==
    (fn_op = "diff_tables" /\ fn_pc = "done") =>
        LET kb == CellKeys(fn_before)
            ka == CellKeys(fn_after)
            before_map == CellMap(fn_before)
            after_map == CellMap(fn_after)
        IN  /\ \A n \in 1..Len(fn_result) : <<fn_result[n].row, fn_result[n].col>> \in kb \cup ka
            /\ \A key \in kb \ ka :
                  /\ Cardinality(ChangesAt(key)) = 1
                  /\ \A n \in ChangesAt(key) :
                        fn_result[n].before = Some(before_map[key]) /\ fn_result[n].after = None
            /\ \A key \in ka \ kb :
                  /\ Cardinality(ChangesAt(key)) = 1
                  /\ \A n \in ChangesAt(key) :
                        fn_result[n].before = None /\ fn_result[n].after = Some(after_map[key])
            /\ \A key \in ka \cap kb :
                  IF before_map[key].text # after_map[key].text
                  THEN /\ Cardinality(ChangesAt(key)) = 1
                       /\ \A n \in ChangesAt(key) :
                             /\ fn_result[n].before = Some(before_map[key])
                             /\ fn_result[n].after = Some(after_map[key])
                  ELSE ChangesAt(key) = {}

\* C10 witness: one coordinate whose text changed and one present on one side
\* only, in lists without repeated coordinates: two changes
C10_Witness ==
    /\ fn_op = "diff_tables" /\ fn_pc = "done"
    /\ Len(fn_result) = 2
    /\ Cardinality(CellKeys(fn_before)) = Len(fn_before)
    /\ Cardinality(CellKeys(fn_after)) = Len(fn_after)
    /\ \E n \in 1..2 : fn_result[n].before # None /\ fn_result[n].after # None
    /\ \E n \in 1..2 : fn_result[n].before = None \/ fn_result[n].after = None

(***************************************************************************)
(* integrity.py: detect_integrity                                          *)
(***************************************************************************)
\* the first index >= i of s whose character is in class (Len(s)+1 if none)
RECURSIVE SkipUntil(_, _, _)
SkipUntil(s, i, class) ==
    IF i <= Len(s) /\ s[i] \notin class THEN SkipUntil(s, i + 1, class) ELSE i

\* len(t.split()) from index i on: str.split() without arguments yields the
\* maximal runs of non-whitespace characters
RECURSIVE SplitCount(_, _)
SplitCountFrom(t, start) ==
    IF start > Len(t) THEN 0 ELSE 1 + SplitCount(t, SkipUntil(t, start, SpaceChar))

SplitCount(t, i) == SplitCountFrom(t, SkipClass(t, i, SpaceChar))

\* sum(len(c.after.split()) for c in change.insertions)
RECURSIVE insert_len(_)
insert_len(insertions) ==
    IF insertions = <<>> THEN 0
    ELSE SplitCount(Head(insertions).after, 1) + insert_len(Tail(insertions))

\* sum(len(c.before.split()) for c in change.deletions)
RECURSIVE delete_len(_)
delete_len(deletions) ==
    IF deletions = <<>> THEN 0
    ELSE SplitCount(Head(deletions).before, 1) + delete_len(Tail(deletions))

IntegrityAlert(clause_id, alert_type, rationale) ==
    [clause_id |-> clause_id, alert_type |-> alert_type, rationale |-> rationale]

\* a threshold that 40 words already reach
is_large_from_40(insert, delete) == insert + delete >= 40

\* "if insert_len + delete_len > 40"
is_large(insert, delete) == insert + delete > 40

\* the body of "for change in change_sets": the alerts appended for one change
change_alerts(change) ==
    (IF is_large(insert_len(change.insertions), delete_len(change.deletions))
     THEN <<IntegrityAlert(change.clause_id, "large_untracked_change",
                           "Large insertion/deletion without explicit tracking metadata")>>
     ELSE <<>>)
    \o (IF change.moved_blocks # <<>>
        THEN <<IntegrityAlert(change.clause_id, "moved_content",
                              "Content moved between sections")>>
        ELSE <<>>)

RECURSIVE detect_integrity(_)
detect_integrity(change_sets) ==
    IF change_sets = <<>> THEN <<>>
    ELSE change_alerts(Head(change_sets)) \o detect_integrity(Tail(change_sets))

DetectIntegrity == FnCall("detect_integrity", LAMBDA b, a : detect_integrity(b))

IntegrityNext == DetectIntegrity

\* the most insertions, and the most deletions, of a change set
MaxSpans == 2

\* n words separated by sep
WordsText(n, sep) == JoinWith([k \in 1..n |-> <<"w">>], sep)

\* texts of 20, 21 and 1 words; the last two with tabs, newlines and doubled
\* blanks around the words
Words20 == WordsText(20, <<" ">>)
Words21 == <<"\t">> \o WordsText(21, <<" ", "\n">>)
Words1 == <<" ", "x", " ", "\n">>

\* the spans of a change set: an insertion and a deletion as diff_clause
\* builds them, and spans that carry text on both sides
SpanLibrary ==
    {[before |-> <<>>, after |-> Words20], [before |-> Words20, after |-> <<>>],
     [before |-> Words21, after |-> Words1], [before |-> Words1, after |-> Words21]}

\* the ChangeSet fields detect_integrity reads
ChangeSetsOf(clause_id, spans) ==
    [clause_id : {clause_id}, insertions : spans, deletions : spans,
     moved_blocks : {<<>>, <<ClauseId(9)>>}]

\* a second change set of the list: 40 words and no marker, or 42 words and a marker
TailChangeSets ==
    {[clause_id |-> ClauseId(2), insertions |-> <<[before |-> <<>>, after |-> Words20]>>,
      deletions |-> <<[before |-> Words20, after |-> <<>>]>>, moved_blocks |-> <<>>],
     [clause_id |-> ClauseId(2), insertions |-> <<[before |-> Words1, after |-> Words21]>>,
      deletions |-> <<[before |-> Words21, after |-> Words1]>>, moved_blocks |-> <<ClauseId(9)>>]}

\* lists of one or two change sets with distinct clause ids
IntegrityInputs ==
    {<<c>> \o t : c \in ChangeSetsOf(ClauseId(1), DocsOf(SpanLibrary, MaxSpans)),
                  t \in {<<>>} \cup {<<d>> : d \in TailChangeSets}}

IntegrityInit == FnInit("detect_integrity", IntegrityInputs, {<<>>})

SpecIntegrity == IntegrityInit /\ [][IntegrityNext]_vars

\* the number of whitespace-separated words of a text: the positions where a
\* word starts
WordCount(t) ==
    Cardinality({i \in 1..Len(t) : t[i] \notin SpaceChar /\ (i = 1 \/ t[i - 1] \in SpaceChar)})

\* the words of the after-text of all insertions plus the before-text of all
\* deletions of a change set
ChangedWords(change) ==
    SumOver([k \in 1..Len(change.insertions) |-> WordCount(change.insertions[k].after)],
            1..Len(change.insertions))
    + SumOver([k \in 1..Len(change.deletions) |-> WordCount(change.deletions[k].before)],
              1..Len(change.deletions))

\* the alert types the claim gives a change set
ExpectedAlertTypes(change) ==
    (IF ChangedWords(change) > 40 THEN {"large_untracked_change"} ELSE {})
    \cup (IF Len(change.moved_blocks) >= 1 THEN {"moved_content"} ELSE {})

\* the alerts of the result that name a clause
AlertsFor(clause_id) == {n \in 1..Len(fn_result) : fn_result[n].clause_id = clause_id}

\* C11: detect_integrity emits a "large_untracked_change" alert for a
\* ChangeSet exactly when the whitespace-separated words of the after-text of
\* its insertions plus the before-text of its deletions number more than 40
\* (41 fires, 40 does not), and a "moved_content" alert exactly when the
\* ChangeSet carries at least one moved-block marker; both alerts may be
\* emitted for the same clause, and nothing else is emitted.
C11_IntegrityAlerts ==
    (fn_op = "detect_integrity" /\ fn_pc = "done") =>
        /\ \A k \in 1..Len(fn_before) :
              /\ {fn_result[n].alert_type : n \in AlertsFor(fn_before[k].clause_id)}
                     = ExpectedAlertTypes(fn_before[k])
              /\ Cardinality(AlertsFor(fn_before[k].clause_id))
                     = Cardinality(ExpectedAlertTypes(fn_before[k]))
        /\ \A n \in 1..Len(fn_result) :
              \E k \in 1..Len(fn_before) : fn_result[n].clause_id = fn_before[k].clause_id

\* C11 witness: a change set of exactly 41 changed words that carries a marker
\* gets both alerts, and the change set after it, of exactly 40 words and
\* without marker, gets none
C11_Witness ==
    /\ fn_op = "detect_integrity" /\ fn_pc = "done"
    /\ Len(fn_before) = 2
    /\ ChangedWords(fn_before[1]) = 41
    /\ fn_before[1].moved_blocks # <<>>
    /\ ChangedWords(fn_before[2]) = 40
    /\ fn_before[2].moved_blocks = <<>>
    /\ Len(fn_result) = 2
    /\ fn_result[1].alert_type = "large_untracked_change"
    /\ fn_result[2].alert_type = "moved_content"
    /\ fn_result[1].clause_id = fn_before[1].clause_id
    /\ fn_result[2].clause_id = fn_before[1].clause_id

(***************************************************************************)
(* clause_tree.py: the defined-term index of build_clause_tree             *)
(***************************************************************************)
BuildClauseTree == FnCall("build_clause_tree", LAMBDA b, a : build_clause_tree(b))

TermsNext == BuildClauseTree

\* the most blocks of a document with definitions
MaxTermBlocks == 3

\* the paragraphs '"T" means a', '"T" means b', '"U"  MEANS c' followed by a
\* second line "d", and '"T means a' without closing quote; the heading
\* "1. Fee"; the table cell '"T" means t'
TermLibrary ==
    {Paragraph(<<"\"", "T", "\"", " ", "m", "e", "a", "n", "s", " ", "a">>),
     Paragraph(<<"\"", "T", "\"", " ", "m", "e", "a", "n", "s", " ", "b">>),
     Paragraph(<<"\"", "U", "\"", " ", " ", "M", "E", "A", "N", "S", " ", "c", "\n", "d">>),
     Paragraph(<<"\"", "T", " ", "m", "e", "a", "n", "s", " ", "a">>),
     Paragraph(<<"1", ".", " ", "F", "e", "e">>),
     TableCell(<<"\"", "T", "\"", " ", "m", "e", "a", "n", "s", " ", "t">>)}

TermsInit == FnInit("build_clause_tree", DocsOf(TermLibrary, MaxTermBlocks), {<<>>})

SpecTerms == TermsInit /\ [][TermsNext]_vars

\* the positions, in document order, of the clauses of a tree that define a term
DefiningClauses(tree, term) ==
    {k \in 1..Len(tree.root.children) :
        /\ tree.root.children[k].type # "table"
        /\ \E d \in {_extract_defined_terms(tree.root.children[k])} :
              d # <<>> /\ d[1].term = term}

\* C12: after build_clause_tree, the defined-term index of the tree holds at
\* most one DefinedTerm per term string; when the same term is defined by
\* more than one clause, the entry kept is the one from the last defining
\* clause in document order.
C12_LastDefinitionWins ==
    (fn_op = "build_clause_tree" /\ fn_pc = "done") =>
        LET terms == fn_result.defined_terms
        IN  /\ \A i, j \in 1..Len(terms) : terms[i].term = terms[j].term => i = j
            /\ \A i \in 1..Len(terms) :
                  \E k \in DefiningClauses(fn_result, terms[i].term) :
                      /\ terms[i].definition_clause_id = fn_result.root.children[k].clause_id
                      /\ \A m \in DefiningClauses(fn_result, terms[i].term) : m <= k

(***************************************************************************)
(* diff_engine.py: diff_clause                                             *)
(***************************************************************************)
\* " ".join(tokens[lo:hi]), lo and hi Python's 0-based half-open positions
JoinTokens(tokens, lo, hi) == JoinWith(SubSeq(tokens, lo + 1, hi), <<" ">>)

\* _diff_tokens with the offsets of a substitution taken in the before tokens
span_of_opcode_before_offsets(op, before, after) ==
    IF op[1] = "insert"
    THEN [before |-> <<>>, after |-> JoinTokens(after, op[4], op[5]),
          token_start |-> op[4], token_end |-> op[5]]
    ELSE IF op[1] = "delete"
    THEN [before |-> JoinTokens(before, op[2], op[3]), after |-> <<>>,
          token_start |-> op[2], token_end |-> op[3]]
    ELSE [before |-> JoinTokens(before, op[2], op[3]), after |-> JoinTokens(after, op[4], op[5]),
          token_start |-> op[2], token_end |-> op[3]]

\* the ChangeSpan _diff_tokens appends for an opcode (tag, a0, a1, b0, b1)
span_of_opcode(op, before, after) ==
    IF op[1] = "insert"
    THEN [before |-> <<>>, after |-> JoinTokens(after, op[4], op[5]),
          token_start |-> op[4], token_end |-> op[5]]
    ELSE IF op[1] = "delete"
    THEN [before |-> JoinTokens(before, op[2], op[3]), after |-> <<>>,
          token_start |-> op[2], token_end |-> op[3]]
    ELSE [before |-> JoinTokens(before, op[2], op[3]), after |-> JoinTokens(after, op[4], op[5]),
          token_start |-> op[4], token_end |-> op[5]]

\* the spans of _diff_tokens for the opcodes of one tag, in opcode order
RECURSIVE SpansOfTag(_, _, _, _)
SpansOfTag(ops, before, after, tag) ==
    IF ops = <<>> THEN <<>>
    ELSE (IF Head(ops)[1] = tag THEN <<span_of_opcode(Head(ops), before, after)>> ELSE <<>>)
         \o SpansOfTag(Tail(ops), before, after, tag)

\* the ChangeSet of diff_clause, given the tokens and their opcodes
ChangeSetOf(before_text, after_text, before, after, ops) ==
    [clause_id |-> <<>>, heading |-> None,
     before_text |-> before_text, after_text |-> after_text,
     insertions |-> SpansOfTag(ops, before, after, "insert"),
     deletions |-> SpansOfTag(ops, before, after, "delete"),
     substitutions |-> SpansOfTag(ops, before, after, "replace"),
     moved_blocks |-> <<>>, table_cell_changes |-> <<>>]

\* _diff_tokens: SequenceMatcher(None, before, after).get_opcodes()
DiffTokens(before_text, after_text, before, after) ==
    ChangeSetOf(before_text, after_text, before, after, get_opcodes(before, after, {}))

diff_clause(before_text, after_text) ==
    DiffTokens(before_text, after_text, tokenize_legal(before_text), tokenize_legal(after_text))

(***************************************************************************)
(* rules_engine.py: apply_rules                                            *)
(***************************************************************************)
MaterialityFinding(category, severity, rationale, before, after) ==
    [clause_id |-> <<>>, category |-> category, severity |-> severity,
     rationale |-> rationale, exact_diff_span |-> [before |-> before, after |-> after]]

\* a finding when the literals of a kind differ between the two texts
FindingIf(differs, category, severity, rationale, before, after) ==
    IF differs THEN <<MaterialityFinding(category, severity, rationale, before, after)>>
    ELSE <<>>

_find_numeric(before, after) ==
    FindingIf(CurrencyLiterals(before) # CurrencyLiterals(after),
              "Numeric Threshold", "high", "Currency amount changed", before, after)
    \o FindingIf(PercentLiterals(before) # PercentLiterals(after),
                 "Numeric Threshold", "medium", "Percentage threshold changed", before, after)

_find_time(before, after) ==
    FindingIf(DateLiterals(before) # DateLiterals(after),
              "Time Period", "high", "Date changed", before, after)
    \o FindingIf(DurationLiterals(before) # DurationLiterals(after),
                 "Time Period", "medium", "Duration window changed", before, after)

\* the needles and labels of KEY_TERMS, in the order of the dict
KEY_TERMS ==
    << <<<<"m", "a", "e">>,
         "MAE">>,
       <<<<"m", "a", "t", "e", "r", "i", "a", "l", " ", "a", "d", "v", "e", "r", "s", "e", " ", "e", "f", "f", "e", "c", "t">>,
         "MAE">>,
       <<<<"c", "l", "o", "s", "i", "n", "g", " ", "c", "o", "n", "d", "i", "t", "i", "o", "n", "s">>,
         "Closing Conditions">>,
       <<<<"t", "e", "r", "m", "i", "n", "a", "t", "i", "o", "n">>,
         "Termination Rights">>,
       <<<<"d", "r", "o", "p", "-", "d", "e", "a", "d">>,
         "Termination Rights">>,
       <<<<"s", "a", "n", "d", "b", "a", "g", "g", "i", "n", "g">>,
         "Non-reliance/Sandbagging">>,
       <<<<"n", "o", "n", "-", "r", "e", "l", "i", "a", "n", "c", "e">>,
         "Non-reliance/Sandbagging">>,
       <<<<"d", "i", "s", "c", "l", "o", "s", "u", "r", "e", " ", "s", "c", "h", "e", "d", "u", "l", "e">>,
         "Disclosure Schedule">>,
       <<<<"a", "f", "f", "i", "l", "i", "a", "t", "e">>,
         "Definitions">>,
       <<<<"k", "n", "o", "w", "l", "e", "d", "g", "e">>,
         "Definitions">>,
       <<<<"p", "e", "r", "m", "i", "t", "t", "e", "d", " ", "l", "i", "e", "n", "s">>,
         "Definitions">>,
       <<<<"m", "a", "t", "e", "r", "i", "a", "l">>,
         "Definitions">> >>

\* "p in t" for strings
ContainsText(t, p) == \E i \in 1..(Len(t) - Len(p) + 1) : StartsWithAt(t, i, p)

\* "for needle, label in KEY_TERMS.items()" from entry k on
RECURSIVE KeyTermLoop(_, _, _, _)
KeyTermLoop(before, after, combined, k) ==
    IF k > Len(KEY_TERMS) THEN <<>>
    ELSE FindingIf(ContainsText(combined, KEY_TERMS[k][1]) /\ before # after,
                   KEY_TERMS[k][2], "medium",
                   <<"Change detected in ", KEY_TERMS[k][2], " language">>, before, after)
         \o KeyTermLoop(before, after, combined, k + 1)

_find_key_terms(before, after) ==
    KeyTermLoop(before, after, Lower(before \o <<" ">> \o after), 1)

\* apply_rules with the key-term findings put first
apply_rules_key_terms_first(before, after) ==
    _find_key_terms(before, after) \o _find_modal_shift(before, after)
    \o _find_numeric(before, after) \o _find_time(before, after)

apply_rules(before, after) ==
    _find_modal_shift(before, after) \o _find_numeric(before, after)
    \o _find_time(before, after) \o _find_key_terms(before, after)

(***************************************************************************)
(* dependency.py, numeric.py (build_numeric_links), audit.py               *)
(***************************************************************************)
\* t.count(p): the occurrences of p in t from index i on, without overlap
RECURSIVE CountText(_, _, _)
CountText(t, p, i) ==
    IF i + Len(p) - 1 > Len(t) THEN 0
    ELSE IF StartsWithAt(t, i, p) THEN 1 + CountText(t, p, i + Len(p))
    ELSE CountText(t, p, i + 1)

\* "if count: usage.append(...)"
UsageIf(term, clause, count) ==
    IF count # 0 THEN <<[term |-> term.term, clause_id |-> clause.clause_id, count |-> count]>>
    ELSE <<>>

\* "for clause in clauses" of build_term_index, for one term
RECURSIVE TermUsageIn(_, _, _)
TermUsageIn(term, clauses, k) ==
    IF k > Len(clauses) THEN <<>>
    ELSE UsageIf(term, clauses[k], CountText(Lower(clauses[k].text), Lower(term.term), 1))
         \o TermUsageIn(term, clauses, k + 1)

RECURSIVE build_term_index(_, _)
build_term_index(clauses, defined_terms) ==
    IF defined_terms = <<>> THEN <<>>
    ELSE TermUsageIn(Head(defined_terms), clauses, 1)
         \o build_term_index(clauses, Tail(defined_terms))

\* [\d\.\(\)a-zA-Z] of SECTION_REF
SectionRefChar == Digit \cup UpperLetter \cup LowerLetter \cup {".", "(", ")"}

\* the end (exclusive) of the match of SECTION_REF = section\s+([\d\.\(\)a-zA-Z]+)
\* (re.IGNORECASE) at index i of t, lower the lowercased t; i when there is none
SectionRefEnd(t, lower, i, g) ==
    IF StartsWithAt(lower, i, <<"s", "e", "c", "t", "i", "o", "n">>) /\ g > i + 7
       /\ SkipClass(t, g, SectionRefChar) > g
    THEN SkipClass(t, g, SectionRefChar)
    ELSE i

\* SECTION_REF.findall(t) from index i on: the group of every match
RECURSIVE SectionRefs(_, _, _)
SectionRefsAt(t, lower, i, g, e) ==
    IF e > i THEN <<Slice(t, g, e)>> \o SectionRefs(t, lower, e)
    ELSE SectionRefs(t, lower, i + 1)

SectionRefs(t, lower, i) ==
    IF i > Len(t) THEN <<>>
    ELSE SectionRefsAt(t, lower, i, SkipClass(t, i + 7, SpaceChar),
                       SectionRefEnd(t, lower, i, SkipClass(t, i + 7, SpaceChar)))

RECURSIVE build_cross_refs(_)
build_cross_refs(clauses) ==
    IF clauses = <<>> THEN <<>>
    ELSE [k \in 1..Len(SectionRefs(Head(clauses).text, Lower(Head(clauses).text), 1)) |->
             [from_clause_id |-> Head(clauses).clause_id,
              to_clause_path |-> SectionRefs(Head(clauses).text, Lower(Head(clauses).text), 1)[k]]]
         \o build_cross_refs(Tail(clauses))

RECURSIVE build_numeric_links(_)
build_numeric_links(clauses) ==
    IF clauses = <<>> THEN <<>>
    ELSE [k \in 1..Len(CurrencyLiterals(Head(clauses).text)) |->
             [value |-> CurrencyLiterals(Head(clauses).text)[k],
              clause_id |-> Head(clauses).clause_id]]
         \o build_numeric_links(Tail(clauses))

DependencyEdge(source, target, edge_type) ==
    [source |-> source, target |-> target, edge_type |-> edge_type]

build_dependency_graph(clauses, term_usage, cross_refs, numeric_links) ==
    [nodes |-> [k \in 1..Len(clauses) |-> clauses[k].clause_id],
     edges |-> [k \in 1..Len(term_usage) |->
                   DependencyEdge(term_usage[k].term, term_usage[k].clause_id, "term")]
               \o [k \in 1..Len(cross_refs) |->
                   DependencyEdge(cross_refs[k].from_clause_id, cross_refs[k].to_clause_path, "cross_ref")]
               \o [k \in 1..Len(numeric_links) |->
                   DependencyEdge(numeric_links[k].value, numeric_links[k].clause_id, "numeric")]]

\* usage_by_term.get(term, []): the usages of a term, in the order of term_usage
RECURSIVE UsageOfTerm(_, _)
UsageOfTerm(term_usage, term) ==
    IF term_usage = <<>> THEN <<>>
    ELSE (IF Head(term_usage).term = term
          THEN <<[clause_id |-> Head(term_usage).clause_id,
                  importance_score |-> Head(term_usage).count]>>
          ELSE <<>>)
         \o UsageOfTerm(Tail(term_usage), term)

\* sorted(..., key=importance_score, reverse=True): a stable insertion of x
RECURSIVE InsertByScore(_, _)
InsertByScore(sorted, x) ==
    IF sorted = <<>> THEN <<x>>
    ELSE IF Head(sorted).importance_score >= x.importance_score
         THEN <<Head(sorted)>> \o InsertByScore(Tail(sorted), x)
         ELSE <<x>> \o sorted

RECURSIVE SortByScore(_, _)
SortByScore(items, sorted) ==
    IF items = <<>> THEN sorted
    ELSE SortByScore(Tail(items), InsertByScore(sorted, Head(items)))

RECURSIVE build_impact_reports(_, _)
build_impact_reports(definition_changes, term_usage) ==
    IF definition_changes = <<>> THEN <<>>
    ELSE <<[term_changed |-> Head(definition_changes).term,
            definition_diff |-> [before |-> Head(definition_changes).before,
                                 after |-> Head(definition_changes).after],
            affected_clauses |->
                SortByScore(UsageOfTerm(term_usage, Head(definition_changes).term), <<>>)]>>
         \o build_impact_reports(Tail(definition_changes), term_usage)

\* hashlib.sha256(text).hexdigest(): a collision-resistant digest, modelled as
\* an injective function of the text
clause_hash(text) == <<"sha256", text>>
doc_hash(text) == <<"sha256", text>>

\* build_audit(doc_text, clause_texts) at the time now
build_audit(doc_text, clause_texts, now) ==
    [doc_hash |-> doc_hash(doc_text),
     clause_hashes |-> [cid \in DOMAIN clause_texts |-> clause_hash(clause_texts[cid])],
     parser_version |-> "docx-pdf-v1", diff_version |-> "token-sentence-v1",
     rules_version |-> "ma-mvp-v1", alignment_version |-> "align-v1",
     timestamp |-> now]

(***************************************************************************)
(* backend_old/app/main.py: the /compare handler                           *)
(***************************************************************************)
\* a canonical block with the span fields the handler reads
Block(text, block_type, row, col) ==
    [text |-> text, block_type |-> block_type, span |-> [row |-> row, col |-> col]]

\* _doc_text(canonical): the non-empty block texts joined by newlines
RECURSIVE NonEmptyTexts(_)
NonEmptyTexts(blocks) ==
    IF blocks = <<>> THEN <<>>
    ELSE (IF Head(blocks).text # <<>> THEN <<Head(blocks).text>> ELSE <<>>)
         \o NonEmptyTexts(Tail(blocks))

_doc_text(blocks) == JoinWith(NonEmptyTexts(blocks), <<"\n">>)

RECURSIVE _table_cells(_)
_table_cells(blocks) ==
    IF blocks = <<>> THEN <<>>
    ELSE (IF Head(blocks).block_type = "table_cell"
          THEN <<[row |-> Head(blocks).span.row, col |-> Head(blocks).span.col,
                  text |-> Head(blocks).text]>>
          ELSE <<>>)
         \o _table_cells(Tail(blocks))

\* "next((c for c in clauses if c.clause_id == id), None)" and "clauses_b.get(id)":
\* the clause of that id, when there is one (clause ids are unique in a tree)
RECURSIVE ClauseById(_, _)
ClauseById(clauses, id) ==
    IF clauses = <<>> THEN None
    ELSE IF Head(clauses).clause_id = id THEN Some(Head(clauses))
    ELSE ClauseById(Tail(clauses), id)

\* term_map = {t.definition_clause_id: t.term for t in tree_b.defined_terms}
term_map(defined_terms) ==
    [cid \in {defined_terms[k].definition_clause_id : k \in 1..Len(defined_terms)} |->
        defined_terms[CHOOSE k \in 1..Len(defined_terms) :
            /\ defined_terms[k].definition_clause_id = cid
            /\ \A m \in (k + 1)..Len(defined_terms) :
                  defined_terms[m].definition_clause_id # cid].term]

\* the ChangeSet of an aligned pair, filed under the id of the old clause
change_of_old_id(entry, old_clause, new_clause) ==
    [diff_clause(old_clause.text, new_clause.text) EXCEPT
        !.clause_id = old_clause.clause_id,
        !.heading = Some(new_clause.label),
        !.moved_blocks = IF entry.move_detected THEN <<entry.old_clause_id>> ELSE <<>>]

\* the ChangeSet of an aligned pair: diff_clause, then the fields the handler sets
change_of(entry, old_clause, new_clause) ==
    [diff_clause(old_clause.text, new_clause.text) EXCEPT
        !.clause_id = new_clause.clause_id,
        !.heading = Some(new_clause.label),
        !.moved_blocks = IF entry.move_detected THEN <<entry.old_clause_id>> ELSE <<>>]

\* "for finding in apply_rules(before, after): finding.clause_id = ..."
findings_of(found, clause_id) ==
    [k \in 1..Len(found) |-> [found[k] EXCEPT !.clause_id = clause_id]]

\* extract_numeric_deltas(clause_id, before, after)
deltas_of(deltas, clause_id) ==
    [k \in 1..Len(deltas) |-> [clause_id |-> clause_id] @@ deltas[k]]

\* "if new_clause.clause_id in term_map: definition_changes.append(...)"
definition_change(terms, clause_id, before, after) ==
    IF clause_id \in DOMAIN terms
    THEN <<[term |-> terms[clause_id], before |-> before, after |-> after]>>
    ELSE <<>>

\* the lists and the dict the loop over the alignment fills
NoChanges ==
    [changes |-> <<>>, materiality |-> <<>>, numeric_deltas |-> <<>>,
     clause_texts |-> <<>>, definition_changes |-> <<>>]

\* the body of "for new_id in entry.new_clause_ids" for a clause that exists
compare_pair(acc, entry, old_clause, new_clause, terms) ==
    [changes |-> Append(acc.changes, change_of(entry, old_clause, new_clause)),
     materiality |-> acc.materiality
         \o findings_of(apply_rules(old_clause.text, new_clause.text), new_clause.clause_id),
     numeric_deltas |-> acc.numeric_deltas
         \o deltas_of(extract_numeric_deltas(old_clause.text, new_clause.text), new_clause.clause_id),
     clause_texts |-> (new_clause.clause_id :> new_clause.text) @@ acc.clause_texts,
     definition_changes |-> acc.definition_changes
         \o definition_change(terms, new_clause.clause_id, old_clause.text, new_clause.text)]

\* "if not new_clause: continue"
compare_target(acc, entry, old_clause, new_clause, terms) ==
    IF new_clause = None THEN acc
    ELSE compare_pair(acc, entry, old_clause, new_clause[1], terms)

\* "for new_id in entry.new_clause_ids", from target k on
RECURSIVE compare_targets(_, _, _, _, _, _)
compare_targets(acc, entry, old_clause, clauses_b, terms, k) ==
    IF k > Len(entry.new_clause_ids) THEN acc
    ELSE compare_targets(
             compare_target(acc, entry, old_clause,
                            ClauseById(clauses_b, entry.new_clause_ids[k]), terms),
             entry, old_clause, clauses_b, terms, k + 1)

\* "if not entry.new_clause_ids: continue ... if not old_clause: continue"
compare_entry(acc, entry, old_clause, clauses_b, terms) ==
    IF entry.new_clause_ids = <<>> \/ old_clause = None THEN acc
    ELSE compare_targets(acc, entry, old_clause[1], clauses_b, terms, 1)

\* "for entry in alignment.entries", from entry k on
RECURSIVE compare_entries(_, _, _, _, _, _)
compare_entries(acc, entries_, k, clauses_a, clauses_b, terms) ==
    IF k > Len(entries_) THEN acc
    ELSE compare_entries(
             compare_entry(acc, entries_[k], ClauseById(clauses_a, entries_[k].old_clause_id),
                           clauses_b, terms),
             entries_, k + 1, clauses_a, clauses_b, terms)

\* the ChangeSet "table-changes", appended when diff_tables finds changes
table_change_set(table_changes) ==
    IF table_changes = <<>> THEN <<>>
    ELSE <<[clause_id |-> <<"table-changes">>, heading |-> Some(<<"Table Changes">>),
            before_text |-> <<>>, after_text |-> <<>>,
            insertions |-> <<>>, deletions |-> <<>>, substitutions |-> <<>>,
            moved_blocks |-> <<>>, table_cell_changes |-> table_changes]>>

\* the dependency graph of the new tree
graph_of(clauses, term_usage) ==
    build_dependency_graph(clauses, term_usage, build_cross_refs(clauses),
                           build_numeric_links(clauses))

\* the CompareResponse, from the results of the loop on
ResponseOf(req, changes, term_usage, run_id, now) ==
    [clause_tree_a |-> req.tree_a, clause_tree_b |-> req.tree_b,
     alignment |-> req.alignment,
     changes |-> changes,
     materiality |-> req.acc.materiality,
     dependency_graph |-> graph_of(_flatten(req.tree_b), term_usage),
     impact_reports |-> build_impact_reports(req.acc.definition_changes, term_usage),
     numeric_deltas |-> req.acc.numeric_deltas,
     integrity_alerts |-> detect_integrity(changes),
     audit_log |-> build_audit(_doc_text(req.canonical_b), req.acc.clause_texts, now),
     run_id |-> run_id]

\* the tail of compare: the table diff with its keys iterated in some order,
\* the term index, the reports and the response
respond(req, order, run_id, now) ==
    ResponseOf(req,
               req.acc.changes
                   \o table_change_set(TableLoop(order, CellMap(_table_cells(req.canonical_a)),
                                                 CellMap(_table_cells(req.canonical_b)))),
               build_term_index(_flatten(req.tree_b), req.tree_b.defined_terms),
               run_id, now)

\* the locals of a request whose uploads have been parsed
NewRequest(canonical_a, canonical_b) ==
    [pc |-> "parsed", canonical_a |-> canonical_a, canonical_b |-> canonical_b,
     tree_a |-> None, tree_b |-> None,
     a_nodes |-> <<>>, b_nodes |-> <<>>, a_pos |-> 0, used_b |-> {}, entries |-> <<>>,
     alignment |-> None, acc |-> NoChanges, response |-> None]

\* a used set shared by every invocation of the aligner
used_by_any(req) == UNION {requests[q].used_b : q \in DOMAIN requests}

\* the set used_b of one invocation of align_clauses
used_by(req) == req.used_b

\* one request takes the step that leads its locals to next
Step(r, next) ==
    /\ requests' = [requests EXCEPT ![r] = next]
    /\ UNCHANGED <<alignVars, fnVars, RUNS, AI_RUNS, ai_call>>

\* "tree_a = build_clause_tree(...); tree_b = build_clause_tree(...)"
CompareBuildTrees(r) ==
    /\ requests[r].pc = "parsed"
    /\ Step(r, [requests[r] EXCEPT !.pc = "trees",
                   !.tree_a = build_clause_tree(requests[r].canonical_a),
                   !.tree_b = build_clause_tree(requests[r].canonical_b)])

\* align_clauses(tree_a, tree_b): the flattening, the empty used set and entry list
CompareAlignStart(r) ==
    /\ requests[r].pc = "trees"
    /\ Step(r, [requests[r] EXCEPT !.pc = "align",
                   !.a_nodes = _flatten(requests[r].tree_a),
                   !.b_nodes = _flatten(requests[r].tree_b),
                   !.used_b = {}, !.entries = <<>>, !.a_pos = 1])

\* one iteration of "for a in a_nodes"
CompareAlignClause(r) ==
    /\ requests[r].pc = "align"
    /\ requests[r].a_pos <= Len(requests[r].a_nodes)
    /\ \E e \in {align_entry(requests[r].a_nodes[requests[r].a_pos], requests[r].b_nodes,
                             used_by(requests[r]))} :
          Step(r, [requests[r] EXCEPT
                      !.entries = Append(requests[r].entries, e),
                      !.used_b = requests[r].used_b
                                 \cup {e.new_clause_ids[i] : i \in 1..Len(e.new_clause_ids)},
                      !.a_pos = requests[r].a_pos + 1])

\* "return AlignmentMap(entries=entries)"
CompareAlignReturn(r) ==
    /\ requests[r].pc = "align"
    /\ requests[r].a_pos > Len(requests[r].a_nodes)
    /\ Step(r, [requests[r] EXCEPT !.pc = "aligned",
                   !.alignment = [entries |-> requests[r].entries]])

\* the loop over the alignment entries
CompareEntries(r) ==
    /\ requests[r].pc = "aligned"
    /\ Step(r, [requests[r] EXCEPT !.pc = "diffed",
                   !.acc = compare_entries(NoChanges, requests[r].alignment.entries, 1,
                                           _flatten(requests[r].tree_a),
                                           _flatten(requests[r].tree_b),
                                           term_map(requests[r].tree_b.defined_terms))])

\* the identifiers uuid4 can give a run, and the times now_iso can return
RunIds == {<<"run-", 1>>, <<"run-", 2>>}
Clock == {"t1", "t2"}

\* the rest of compare and "RUNS[run.run_id] = response"
CompareRespond(r) ==
    /\ requests[r].pc = "diffed"
    /\ \E order \in Orders(CellKeys(_table_cells(requests[r].canonical_a))
                           \cup CellKeys(_table_cells(requests[r].canonical_b))),
          run_id \in RunIds, now \in Clock :
          \E response \in {respond(requests[r], order, run_id, now)} :
              /\ requests' = [requests EXCEPT ![r] = [requests[r] EXCEPT
                                 !.pc = "done", !.response = Some(response)]]
              /\ RUNS' = (run_id :> response) @@ RUNS
    /\ UNCHANGED <<alignVars, fnVars, AI_RUNS, ai_call>>

CompareNext ==
    \E r \in DOMAIN requests :
        \/ CompareBuildTrees(r)
        \/ CompareAlignStart(r)
        \/ CompareAlignClause(r)
        \/ CompareAlignReturn(r)
        \/ CompareEntries(r)
        \/ CompareRespond(r)

\* the requests being served: one parsed pair of documents each
CompareInitWith(ids, docs_a, docs_b) ==
    /\ NoAlign
    /\ NoFn
    /\ requests \in [ids -> {NewRequest(a, b) : a \in docs_a, b \in docs_b}]
    /\ RUNS = <<>>
    /\ NoAi

\* the most blocks of a document that is compared
MaxCompareBlocks == 2

\* the paragraphs '"T" means a', '"T" means b' and 'T $5', and the table cell
\* "A" at row 0, column 0
CompareLibrary ==
    {Block(<<"\"", "T", "\"", " ", "m", "e", "a", "n", "s", " ", "a">>, "paragraph", None, None),
     Block(<<"\"", "T", "\"", " ", "m", "e", "a", "n", "s", " ", "b">>, "paragraph", None, None),
     Block(<<"T", " ", "$", "5">>, "paragraph", None, None),
     Block(<<"A">>, "table_cell", Some(0), Some(0))}

\* one request, any old document against any new document
CompareInit ==
    CompareInitWith({1}, DocsOf(CompareLibrary, MaxCompareBlocks),
                    DocsOf(CompareLibrary, MaxCompareBlocks))

SpecCompare == CompareInit /\ [][CompareNext]_vars

(***************************************************************************)
(* Properties of the /compare handler                                      *)
(***************************************************************************)
\* the text of the clause of a tree with an id
TextOf(tree, id) ==
    tree.root.children[CHOOSE k \in 1..Len(tree.root.children) :
                           tree.root.children[k].clause_id = id].text

\* the text of a clause of the new tree differs from the text of the old
\* clause aligned to it
DefinitionTextChanged(req, new_id) ==
    \E i \in 1..Len(req.alignment.entries) :
        /\ \E j \in 1..Len(req.alignment.entries[i].new_clause_ids) :
              req.alignment.entries[i].new_clause_ids[j] = new_id
        /\ TextOf(req.tree_a, req.alignment.entries[i].old_clause_id)
               # TextOf(req.tree_b, new_id)

\* no term of the tree is defined twice
TermsDistinct(tree) ==
    \A i, j \in 1..Len(tree.defined_terms) :
        tree.defined_terms[i].term = tree.defined_terms[j].term => i = j

\* C13: a comparison emits an ImpactReport for a defined term exactly when
\* the text of that term's definition clause differs between the aligned old
\* clause and the new clause; a defined term whose definition clause text is
\* identical in both versions yields no ImpactReport. (Stated for new trees
\* that define no term twice.)
C13_ImpactOnlyWhenChanged ==
    \A r \in DOMAIN requests :
        (requests[r].pc = "done" /\ TermsDistinct(requests[r].tree_b)) =>
            \A k \in 1..Len(requests[r].tree_b.defined_terms) :
                (\E n \in 1..Len(requests[r].response[1].impact_reports) :
                    requests[r].response[1].impact_reports[n].term_changed
                        = requests[r].tree_b.defined_terms[k].term)
                <=> DefinitionTextChanged(requests[r],
                        requests[r].tree_b.defined_terms[k].definition_clause_id)

\* C14: the AuditLogEntry of a comparison contains a clause hash for every
\* non-root clause of the after (new) tree, each equal to the hash of that
\* clause's text, including new clauses that no old clause was aligned to.
C14_AuditCoversNewTree ==
    \A r \in DOMAIN requests :
        requests[r].pc = "done" =>
            \A k \in 1..Len(requests[r].b_nodes) :
                /\ requests[r].b_nodes[k].clause_id
                       \in DOMAIN requests[r].response[1].audit_log.clause_hashes
                /\ requests[r].response[1].audit_log.clause_hashes[requests[r].b_nodes[k].clause_id]
                       = clause_hash(requests[r].b_nodes[k].text)

(***************************************************************************)
(* Two /compare requests served at the same time                           *)
(***************************************************************************)
\* the documents of the concurrent requests: '"T" means a'; '"T" means b'
\* followed by 'T $5'; 'T $5' followed by the table cell "A"
ConcurrentDocs ==
    {<<Block(<<"\"", "T", "\"", " ", "m", "e", "a", "n", "s", " ", "a">>, "paragraph", None, None)>>,
     <<Block(<<"\"", "T", "\"", " ", "m", "e", "a", "n", "s", " ", "b">>, "paragraph", None, None),
       Block(<<"T", " ", "$", "5">>, "paragraph", None, None)>>,
     <<Block(<<"T", " ", "$", "5">>, "paragraph", None, None),
       Block(<<"A">>, "table_cell", Some(0), Some(0))>>}

ConcurrentInit == CompareInitWith({1, 2}, ConcurrentDocs, ConcurrentDocs)

SpecConcurrent == ConcurrentInit /\ [][CompareNext]_vars

\* align_clauses run from start to end without interruption: "for a in a_nodes"
\* from clause k on
RECURSIVE align_loop(_, _, _, _, _)
align_loop_with(old, new, k, used, done, e) ==
    align_loop(old, new, k + 1,
               used \cup {e.new_clause_ids[i] : i \in 1..Len(e.new_clause_ids)},
               Append(done, e))

align_loop(old, new, k, used, done) ==
    IF k > Len(old) THEN done
    ELSE align_loop_with(old, new, k, used, done, align_entry(old[k], new, used))

align_clauses(ta, tb) == [entries |-> align_loop(_flatten(ta), _flatten(tb), 1, {}, <<>>)]

\* the locals of a request served alone, after the loop over its alignment
AloneDiffed(req) ==
    [req EXCEPT !.acc = compare_entries(NoChanges, req.alignment.entries, 1,
                                        _flatten(req.tree_a), _flatten(req.tree_b),
                                        term_map(req.tree_b.defined_terms))]

AloneAligned(req) ==
    AloneDiffed([req EXCEPT !.alignment = align_clauses(req.tree_a, req.tree_b)])

AloneRequest(a, b) ==
    AloneAligned([NewRequest(a, b) EXCEPT !.tree_a = build_clause_tree(a),
                                         !.tree_b = build_clause_tree(b)])

\* the alignment, changes, findings, dependency graph and impact reports of a response
ResultsOf(response) ==
    <<response.alignment, response.changes, response.materiality,
      response.dependency_graph, response.impact_reports>>

\* the response of a request is one the same documents give when compared alone
SameAsAlone(req) ==
    \E order \in Orders(CellKeys(_table_cells(req.canonical_a))
                        \cup CellKeys(_table_cells(req.canonical_b))) :
        ResultsOf(req.response[1])
            = ResultsOf(respond(AloneRequest(req.canonical_a, req.canonical_b), order,
                                req.response[1].run_id, req.response[1].audit_log.timestamp))

\* C15: two comparisons that run concurrently do not affect each other: under
\* every interleaving of their stages each one produces the alignment,
\* changes, findings, dependency graph and impact reports it produces when
\* run alone; a step of one comparison leaves the locals of the other, its
\* aligner's used set among them, as they were; and the ClauseTrees passed to
\* align_clauses are not modified.
C15_NoCrossTalk ==
    /\ [](\A r \in DOMAIN requests : requests[r].pc = "done" => SameAsAlone(requests[r]))
    /\ [][\E r \in DOMAIN requests :
             \A q \in DOMAIN requests \ {r} : requests'[q] = requests[q]]_vars
    /\ [][\A r \in DOMAIN requests :
             requests[r].pc # "parsed" =>
                 /\ requests'[r].tree_a = requests[r].tree_a
                 /\ requests'[r].tree_b = requests[r].tree_b]_vars

\* C15 witness: one request is inside align_clauses with a clause already
\* bound while the other, on a different document pair, has gone through its
\* own alignment and returned a response with changes and an impact report
C15_Witness ==
    /\ DOMAIN requests = {1, 2}
    /\ <<requests[1].canonical_a, requests[1].canonical_b>>
           # <<requests[2].canonical_a, requests[2].canonical_b>>
    /\ requests[1].pc = "align" /\ requests[1].used_b # {}
    /\ requests[2].pc = "done" /\ requests[2].used_b # {}
    /\ requests[2].response[1].changes # <<>>
    /\ requests[2].response[1].impact_reports # <<>>

(***************************************************************************)
(* backend/app/ai_client.py and the enrichment of backend_old/app/main.py  *)
(*                                                                         *)
(* What the enrichment service does is the environment's choice: a reply   *)
(* says whether a key is configured, how the HTTP exchange ends, whether   *)
(* the body is JSON, the text of the first candidate ("" when the path     *)
(* candidates[0].content.parts[0].text is missing or empty) and the JSON   *)
(* value that text parses to (None when it is not JSON).  Confidences are  *)
(* in hundredths.  An explanation is the sequence of its parts.            *)
(***************************************************************************)
Raised(error) == [raised |-> TRUE, error |-> error, value |-> None]

Returned(value) == [raised |-> FALSE, error |-> "", value |-> value]

Reply(api_key, transport, raw_is_json, text, parsed) ==
    [api_key |-> api_key, transport |-> transport, raw_is_json |-> raw_is_json,
     text |-> text, parsed |-> parsed]

\* models.py: the fields of AiChangeInsight and of AiImpactAnalysis
InsightFields ==
    {"change_id", "semantic_label", "risk_direction", "explanation", "confidence",
     "citations_to_facts"}

ImpactFields ==
    {"trigger_change_id", "impacted_clause_id", "impact_summary", "why_linked", "confidence"}

\* "AiResponse(**{**parsed, "ai_enabled": True})" raises no ValidationError
ValidAiResponse(parsed) ==
    /\ {"insights", "impacts", "summaries"} \subseteq DOMAIN parsed
    /\ \A k \in 1..Len(parsed.insights) : DOMAIN parsed.insights[k] = InsightFields
    /\ \A k \in 1..Len(parsed.impacts) : DOMAIN parsed.impacts[k] = ImpactFields

\* the dict call_gemini returns for text it cannot use
EmptyOutput(text) ==
    [insights |-> <<>>, impacts |-> <<>>, summaries |-> <<>>, raw_text |-> text]

\* call_gemini, past the exchange: the text of the candidate to the result
gemini_text(text, parsed) ==
    IF text = "" THEN Raised("RuntimeError")
    ELSE IF parsed = None THEN Returned(EmptyOutput(text))
    ELSE IF parsed[1].type # "object" THEN Raised("TypeError")
    ELSE IF ValidAiResponse(parsed[1].value) THEN Returned(parsed[1].value)
    ELSE Returned(EmptyOutput(text))

call_gemini(env) ==
    IF ~env.api_key THEN Raised("RuntimeError")
    ELSE IF env.transport # "ok" THEN Raised(env.transport)
    ELSE IF ~env.raw_is_json THEN Raised("JSONDecodeError")
    ELSE gemini_text(env.text, env.parsed)

\* models.py: AiResponse
AiResponse(insights, impacts, summaries, ai_enabled, raw_text) ==
    [insights |-> insights, impacts |-> impacts, summaries |-> summaries,
     ai_enabled |-> ai_enabled, raw_text |-> raw_text]

\* _summarize_delta: the sentences of the explanation of a changed clause
SentenceIf(differs, kind, before, after) ==
    IF differs THEN <<[kind |-> kind, before |-> before, after |-> after]>> ELSE <<>>

ModalSentence(before, after, from, to, kind) ==
    IF /\ ContainsText(<<" ">> \o Lower(before) \o <<" ">>, from)
       /\ ContainsText(<<" ">> \o Lower(after) \o <<" ">>, to)
    THEN <<[kind |-> kind, before |-> <<>>, after |-> <<>>]>>
    ELSE <<>>

ShallText == <<" ", "s", "h", "a", "l", "l", " ">>
MayText == <<" ", "m", "a", "y", " ">>

delta_parts(before, after, b_nums, a_nums, b_dates, a_dates, b_dur, a_dur) ==
    SentenceIf(b_nums # a_nums, "Economic terms changed", b_nums, a_nums)
    \o SentenceIf(b_dates # a_dates, "Key dates shifted", b_dates, a_dates)
    \o SentenceIf(b_dur # a_dur, "Timing windows changed", b_dur, a_dur)
    \o ModalSentence(before, after, ShallText, MayText, "Obligation softened")
    \o ModalSentence(before, after, MayText, ShallText, "Obligation strengthened")

OrDefault(parts) ==
    IF parts # <<>> THEN parts
    ELSE <<[kind |-> "Language updated", before |-> <<>>, after |-> <<>>]>>

_summarize_delta(before, after) ==
    OrDefault(delta_parts(before, after,
                          CurrencyLiterals(before) \o PercentLiterals(before),
                          CurrencyLiterals(after) \o PercentLiterals(after),
                          DateLiterals(before), DateLiterals(after),
                          DurationLiterals(before), DurationLiterals(after)))

\* "impacted_map.setdefault(edge.source, set()).add(edge.target)", read at a source
impacted_set(edges, source) ==
    {edges[k].target : k \in {j \in 1..Len(edges) :
        /\ edges[j].source = source
        /\ edges[j].edge_type \in {"term", "cross_ref", "numeric"}}}

\* "list(impacted_map.get(change.clause_id, []))[:3]": the set is listed in
\* the order its strings hash to; order stands for that order
RECURSIVE ListedIn(_, _, _)
ListedIn(order, S, k) ==
    IF k > Len(order) THEN <<>>
    ELSE (IF order[k] \in S THEN <<order[k]>> ELSE <<>>) \o ListedIn(order, S, k + 1)

FirstThree(listed) == SubSeq(listed, 1, IF Len(listed) < 3 THEN Len(listed) ELSE 3)

\* the explanation of one change, before the related clauses are added
explanation_of(before, after) ==
    IF before = <<>> /\ after # <<>>
    THEN <<[kind |-> "newly added", before |-> <<>>, after |-> <<>>]>>
    ELSE IF before # <<>> /\ after = <<>>
    THEN <<[kind |-> "removed", before |-> <<>>, after |-> <<>>]>>
    ELSE _summarize_delta(before, after)

RelatedIf(impacted) ==
    IF impacted # <<>> THEN <<[kind |-> "Related clauses", before |-> <<>>, after |-> impacted]>>
    ELSE <<>>

\* "label = change.heading or change.clause_id"
label_of(change) ==
    IF change.heading # None /\ change.heading[1] # <<>> THEN change.heading[1]
    ELSE change.clause_id

fallback_insight(change, impacted) ==
    [change_id |-> change.clause_id,
     semantic_label |-> label_of(change),
     risk_direction |-> "neutral",
     explanation |-> explanation_of(change.before_text, change.after_text) \o RelatedIf(impacted),
     confidence |-> 60,
     citations_to_facts |-> <<change.clause_id>>]

\* the insights of _fallback_ai: one per change, in the order of the changes
fallback_insights(compare, order) ==
    [k \in 1..Len(compare.changes) |->
        fallback_insight(compare.changes[k],
            FirstThree(ListedIn(order,
                impacted_set(compare.dependency_graph.edges, compare.changes[k].clause_id), 1)))]

\* an explanation holds a sentence of one of the kinds
Mentions(insight, kinds) ==
    \E k \in 1..Len(insight.explanation) : insight.explanation[k].kind \in kinds

DefinitionText == <<"d", "e", "f", "i", "n", "i", "t", "i", "o", "n">>

\* "if "definition" in label.lower()"; the ids clause-N and table-changes,
\* which stand in for a missing heading, do not hold the word
IsDefinitionLabel(change) ==
    /\ change.heading # None
    /\ change.heading[1] # <<>>
    /\ ContainsText(Lower(change.heading[1]), DefinitionText)

\* the bullets of one list, in the order of the changes; a bullet is the
\* label it starts with
RECURSIVE BulletsOf(_, _, _, _, _)
BulletsOf(insights, changes, kinds, by_label, k) ==
    IF k > Len(insights) THEN <<>>
    ELSE (IF (by_label /\ IsDefinitionLabel(changes[k]))
             \/ (~by_label /\ Mentions(insights[k], kinds))
          THEN <<[label |-> insights[k].semantic_label]>> ELSE <<>>)
         \o BulletsOf(insights, changes, kinds, by_label, k + 1)

FirstOf(s, n) == SubSeq(s, 1, IF Len(s) < n THEN Len(s) ELSE n)

AiSummary(type, bullets, backing_change_ids) ==
    [type |-> type, bullets |-> bullets, backing_change_ids |-> backing_change_ids]

SummaryIf(type, bullets, change_ids) ==
    IF bullets # <<>> THEN <<AiSummary(type, FirstOf(bullets, 6), change_ids)>> ELSE <<>>

\* the summaries of _fallback_ai: the executive one, then the negotiation,
\* economics and definitions ones when they have bullets
fallback_summaries(insights, changes, change_ids) ==
    <<AiSummary("executive",
                <<[label |-> <<"Material changes detected across multiple sections.">>]>>
                \o FirstOf(BulletsOf(insights, changes,
                                     {"Key dates shifted", "Timing windows changed"}, FALSE, 1), 5)
                \o <<[label |-> <<"Review sections with numeric, date, or obligation shifts first.">>]>>,
                change_ids)>>
    \o SummaryIf("negotiation",
                 BulletsOf(insights, changes,
                           {"Obligation strengthened", "Obligation softened"}, FALSE, 1),
                 change_ids)
    \o SummaryIf("economics",
                 BulletsOf(insights, changes, {"Economic terms changed"}, FALSE, 1), change_ids)
    \o SummaryIf("definitions", BulletsOf(insights, changes, {}, TRUE, 1), change_ids)

fallback_response(insights, changes) ==
    AiResponse(insights, <<>>,
               fallback_summaries(insights, changes,
                                  FirstOf([k \in 1..Len(changes) |-> changes[k].clause_id], 12)),
               TRUE, None)

_fallback_ai(compare, order) ==
    fallback_response(fallback_insights(compare, order), compare.changes)

\* the prefix "Needs review: " of a text
NeedsReview == [kind |-> "Needs review", before |-> <<>>, after |-> <<>>]

\* the confidence gating: "if item.get("confidence", 0) < 0.5"
gate_insight(item) ==
    IF item.confidence < 50
    THEN [item EXCEPT !.explanation = <<NeedsReview>> \o item.explanation]
    ELSE item

gate_impact(item) ==
    IF item.confidence < 50
    THEN [item EXCEPT !.impact_summary = <<NeedsReview>> \o item.impact_summary]
    ELSE item

\* the dict call_gemini returned, to the result of _ai_insights
enriched(gemini_out, compare, order) ==
    IF gemini_out.insights = <<>> THEN _fallback_ai(compare, order)
    ELSE AiResponse([k \in 1..Len(gemini_out.insights) |-> gate_insight(gemini_out.insights[k])],
                    [k \in 1..Len(gemini_out.impacts) |-> gate_impact(gemini_out.impacts[k])],
                    gemini_out.summaries, TRUE,
                    IF "raw_text" \in DOMAIN gemini_out THEN gemini_out.raw_text ELSE None)

after_gemini(out, compare, order) ==
    IF out.raised THEN _fallback_ai(compare, order)
    ELSE enriched(out.value, compare, order)

\* _ai_insights without its try: the errors of call_gemini reach the caller
_ai_insights_uncaught(compare, ai_enabled, env, order) ==
    IF ~ai_enabled THEN Returned(Some(AiResponse(<<>>, <<>>, <<>>, FALSE, None)))
    ELSE IF call_gemini(env).raised THEN Raised(call_gemini(env).error)
    ELSE Returned(Some(enriched(call_gemini(env).value, compare, order)))

\* _ai_insights(compare, ai_enabled): what it returns or raises.  The payload
\* it sends is built from compare without changing it and does not bear on
\* the reply, which env stands for.
_ai_insights(compare, ai_enabled, env, order) ==
    IF ~ai_enabled THEN Returned(Some(AiResponse(<<>>, <<>>, <<>>, FALSE, None)))
    ELSE Returned(Some(after_gemini(call_gemini(env), compare, order)))

\* the ids of the clauses of the new tree of a response
ClauseIdsOf(compare) ==
    {_flatten(compare.clause_tree_b)[k].clause_id :
        k \in 1..Len(_flatten(compare.clause_tree_b))}

\* POST /ai/insights for a known run
ai_insights(run_id, ai_enabled, env) ==
    /\ run_id \in DOMAIN RUNS
    /\ \E order \in Orders(ClauseIdsOf(RUNS[run_id])) :
          \E ai \in {_ai_insights(RUNS[run_id], ai_enabled, env, order)} :
              /\ ai_call' = [endpoint |-> "ai_insights", run_id |-> run_id,
                             ai_enabled |-> ai_enabled, env |-> Some(env),
                             compare |-> Some(RUNS[run_id]),
                             status |-> IF ai.raised THEN 500 ELSE 200,
                             raised |-> ai.raised, returned |-> ai.value, rendered |-> None]
              /\ AI_RUNS' = IF ai.raised THEN AI_RUNS ELSE (run_id :> ai.value[1]) @@ AI_RUNS
    /\ UNCHANGED <<alignVars, fnVars, requests, RUNS>>

\* POST /ai/insights for an unknown run: HTTPException 404
ai_insights_not_found(run_id, ai_enabled) ==
    /\ run_id \notin DOMAIN RUNS
    /\ ai_call' = [endpoint |-> "ai_insights", run_id |-> run_id, ai_enabled |-> ai_enabled,
                   env |-> None, compare |-> None, status |-> 404, raised |-> FALSE,
                   returned |-> None, rendered |-> None]
    /\ UNCHANGED <<alignVars, fnVars, requests, RUNS, AI_RUNS>>

\* the most insights, and the most impacts, of a reply
MaxInsights == 1

\* an insight of confidence c, and an impact of confidence c
GeminiInsight(c) ==
    [change_id |-> ClauseId(1), semantic_label |-> <<"s">>, risk_direction |-> "neutral",
     explanation |-> <<[kind |-> "text", before |-> <<>>, after |-> <<>>]>>,
     confidence |-> c, citations_to_facts |-> <<ClauseId(1)>>]

GeminiImpact(c) ==
    [trigger_change_id |-> ClauseId(1), impacted_clause_id |-> ClauseId(2),
     impact_summary |-> <<[kind |-> "text", before |-> <<>>, after |-> <<>>]>>,
     why_linked |-> "term", confidence |-> c]

\* the confidences 0.49 and 0.5
Confidences == {49, 50}

ListsOf(S, max) == UNION {[1..n -> S] : n \in 0..max}

\* the JSON objects the text of a reply can hold: one without the keys
\* impacts and summaries, one whose insight lacks fields, and the ones that
\* fit the schema
GeminiObjects ==
    {[insights |-> <<>>]}
    \cup {[insights |-> <<[change_id |-> ClauseId(1)]>>, impacts |-> <<>>, summaries |-> <<>>]}
    \cup {[insights |-> i, impacts |-> m, summaries |-> <<>>] :
              i \in ListsOf({GeminiInsight(c) : c \in Confidences}, MaxInsights),
              m \in ListsOf({GeminiImpact(49)}, MaxInsights)}

\* what the environment can answer a call of call_gemini with
GeminiReplies ==
    {Reply(FALSE, "ok", TRUE, "", None),
     Reply(TRUE, "URLError", TRUE, "", None),
     Reply(TRUE, "timeout", TRUE, "", None),
     Reply(TRUE, "ok", FALSE, "", None),
     Reply(TRUE, "ok", TRUE, "", None),
     Reply(TRUE, "ok", TRUE, "prose", None),
     Reply(TRUE, "ok", TRUE, "json", Some([type |-> "array", value |-> [insights |-> <<>>]]))}
    \cup {Reply(TRUE, "ok", TRUE, "json", Some([type |-> "object", value |-> o])) :
              o \in GeminiObjects}

AiNext ==
    \E run_id \in RunIds, ai_enabled \in BOOLEAN :
        \/ ai_insights_not_found(run_id, ai_enabled)
        \/ \E env \in GeminiReplies : ai_insights(run_id, ai_enabled, env)

EnrichNext == CompareNext \/ AiNext

\* one comparison of two of the documents, then requests for its enrichment
EnrichInit == CompareInitWith({1}, ConcurrentDocs, ConcurrentDocs)

SpecEnrich == EnrichInit /\ [][EnrichNext]_vars

(***************************************************************************)
(* Properties of the enrichment                                            *)
(***************************************************************************)
\* the reply is one of: missing credentials, network error or timeout, a
\* body or a text that is not JSON, empty response, JSON that does not fit
\* the schema, an empty insight list
Degraded(env) ==
    \/ ~env.api_key
    \/ env.transport # "ok"
    \/ ~env.raw_is_json
    \/ env.text = ""
    \/ env.parsed = None
    \/ env.parsed[1].type # "object"
    \/ ~ValidAiResponse(env.parsed[1].value)
    \/ env.parsed[1].value.insights = <<>>

AiResponseFields == {"insights", "impacts", "summaries", "ai_enabled", "raw_text"}

\* the last request to the endpoint called _ai_insights
Called == ai_call.endpoint = "ai_insights" /\ ai_call.status \in {200, 500}

\* the result is the local fallback of the comparison
IsFallback(returned, compare) ==
    \E order \in Orders(ClauseIdsOf(compare)) : returned = _fallback_ai(compare, order)

\* C16: for every outcome of the enrichment call (missing credentials,
\* network error or timeout, empty response, non-JSON text, schema-invalid
\* JSON, empty insight list), _ai_insights returns an AiResponse (the
\* deterministic local fallback, or an empty object when enrichment is
\* disabled) and raises no error, and the CompareResponse stored for the run
\* is left unchanged.
C16_EnrichmentDegrades ==
    (Called /\ (Degraded(ai_call.env[1]) \/ ~ai_call.ai_enabled)) =>
        /\ ~ai_call.raised
        /\ ai_call.returned # None
        /\ DOMAIN ai_call.returned[1] = AiResponseFields
        /\ IF ai_call.ai_enabled
           THEN IsFallback(ai_call.returned[1], ai_call.compare[1])
           ELSE ai_call.returned[1] = AiResponse(<<>>, <<>>, <<>>, FALSE, None)
        /\ RUNS[ai_call.run_id] = ai_call.compare[1]

\* C16 witness: the call timed out and _ai_insights returned the fallback
\* with an insight for a change of the comparison
C16_Witness ==
    /\ Called
    /\ ai_call.ai_enabled
    /\ ai_call.env[1].transport = "timeout"
    /\ ai_call.returned # None
    /\ ai_call.returned[1].insights # <<>>

(***************************************************************************)
(* Stage precedence across the map                                         *)
(***************************************************************************)
\* the i-th old clause and the k-th new clause have the same non-empty match
\* key and are the only clauses of their trees with that key
OnlyPairOfKey(i, k) ==
    /\ _match_key(a_nodes[i]) # <<>>
    /\ _match_key(a_nodes[i]) = _match_key(b_nodes[k])
    /\ \A j \in 1..Len(a_nodes) : _match_key(a_nodes[j]) = _match_key(a_nodes[i]) => j = i
    /\ \A m \in 1..Len(b_nodes) : _match_key(b_nodes[m]) = _match_key(b_nodes[k]) => m = k

\* the k-th new clause is a target of an entry before the i-th
ClaimedBefore(i, k) ==
    \E j \in 1..(i - 1) :
        \E t \in 1..Len(entries[j].new_clause_ids) :
            entries[j].new_clause_ids[t] = b_nodes[k].clause_id

\* C18: stage 1 takes precedence over the looser stages across the whole map:
\* an old clause a and a new clause b with the same non-empty match key that
\* are the only clauses of their trees with that key are bound to each other
\* via title_exact whatever other clauses the trees contain, and b is never
\* claimed through stage 2, 3 or 4 by an old clause that precedes a.
C18_ExactPrecedence ==
    align_pc = "done" =>
        \A i \in 1..Len(a_nodes), k \in 1..Len(b_nodes) :
            OnlyPairOfKey(i, k) =>
                /\ ~ClaimedBefore(i, k)
                /\ entries[i].new_clause_ids = <<b_nodes[k].clause_id>>
                /\ entries[i].reasons = <<[method |-> "title_exact", score |-> One]>>

(***************************************************************************)
(* Stages 2 and 4                                                          *)
(***************************************************************************)
\* the positions of the new clauses not used when the loop reaches the i-th
\* old clause
Unused(i) == {k \in 1..Len(b_nodes) : b_nodes[k].clause_id \notin UsedBefore(i)}

\* stage 1 does not bind the i-th old clause
NotBoundAtStage1(i) == ~(KeyInIndex(i) /\ FreeWithKey(i) # {})

\* the positions of highest score among those of a score function
TopOf(score) == {k \in DOMAIN score : \A m \in DOMAIN score : ScoreLeq(score[m], score[k])}

\* the stage-2 scores of the unused new clauses against the i-th old clause
FuzzyScores(i) == [k \in Unused(i) |-> fuzzy_score(a_nodes[i], b_nodes[k])]

\* the i-th entry binds the new clause at position k through stage 2
BoundByFuzzy(i, k, score) ==
    /\ entries[i].new_clause_ids = <<b_nodes[k].clause_id>>
    /\ entries[i].reasons = <<[method |-> "label_or_heading_fuzzy", score |-> score]>>
    /\ entries[i].confidence = score

\* the stage-2 outcome of the i-th old clause, given the scores
FuzzyOutcome(i, score, top) ==
    IF \E k \in top : ScoreLeq(FUZZY_THRESHOLD, score[k])
    THEN \E k \in top : (\A m \in top : k <= m) /\ BoundByFuzzy(i, k, score[k])
    ELSE MethodOf(entries[i]) # "label_or_heading_fuzzy"

\* C19: an old clause not bound at stage 1 is bound with method
\* label_or_heading_fuzzy to the unused new clause with the highest score (the
\* larger of the title similarity and the similarity of the first 12 body
\* tokens) exactly when that highest score is >= 0.70; when several unused
\* new clauses share the highest score, the earliest in new-tree document
\* order is bound; the entry's confidence is that score.
C19_FuzzyBest ==
    \A i \in 1..Len(entries) :
        NotBoundAtStage1(i) => FuzzyOutcome(i, FuzzyScores(i), TopOf(FuzzyScores(i)))

\* C19 witness: two unused new clauses share the highest score, which is
\* exactly 0.70, and the old clause is bound to the earlier of them
C19_Witness ==
    \E i \in 1..Len(entries) :
        /\ NotBoundAtStage1(i)
        /\ Cardinality(TopOf(FuzzyScores(i))) >= 2
        /\ \E k \in TopOf(FuzzyScores(i)) :
              /\ ScoreLeq(FUZZY_THRESHOLD, FuzzyScores(i)[k])
              /\ ScoreLeq(FuzzyScores(i)[k], FUZZY_THRESHOLD)
              /\ BoundByFuzzy(i, k, FuzzyScores(i)[k])

\* stages 1 to 3 leave the i-th old clause unbound
UnboundAfterCosine(i) == single_match(a_nodes[i], b_nodes, UsedBefore(i)) = <<>>

\* the unused new clauses whose cosine similarity to the i-th old clause, as
\* a real number, is >= 0.45
SplitQualified(i) ==
    {k \in Unused(i) : ScoreLeq(SPLIT_THRESHOLD, TfCosine(a_nodes[i], b_nodes[k]))}

\* targets lists min(2, |qualified|) distinct qualified clauses in descending
\* score order, and no qualified clause left out has a higher score than one
\* listed
TopTwoOf(i, targets, qualified) ==
    /\ Len(targets) = (IF Cardinality(qualified) < 2 THEN Cardinality(qualified) ELSE 2)
    /\ \A t \in 1..Len(targets) : \E k \in qualified : b_nodes[k].clause_id = targets[t]
    /\ \A t, u \in 1..Len(targets) : t # u => targets[t] # targets[u]
    /\ \A t, u \in 1..Len(targets) :
          t < u => ScoreLeq(TfCosine(a_nodes[i], NewClause(targets[u])),
                            TfCosine(a_nodes[i], NewClause(targets[t])))
    /\ \A k \in qualified :
          (\A t \in 1..Len(targets) : targets[t] # b_nodes[k].clause_id) =>
              \A t \in 1..Len(targets) :
                  ScoreLeq(TfCosine(a_nodes[i], b_nodes[k]),
                           TfCosine(a_nodes[i], NewClause(targets[t])))

\* the entry of an old clause with qualified candidates
SplitBound(i, qualified) ==
    /\ MethodOf(entries[i]) = "split_merge"
    /\ Len(entries[i].reasons) = 1
    /\ TopTwoOf(i, entries[i].new_clause_ids, qualified)
    /\ entries[i].confidence = cosine_score(a_nodes[i], NewClause(entries[i].new_clause_ids[1]))
    /\ \A t \in 1..Len(entries[i].new_clause_ids) : entries[i].new_clause_ids[t] \in used_b

\* the entry of an old clause without one
SplitUnmatched(i) ==
    /\ entries[i].new_clause_ids = <<>>
    /\ entries[i].confidence = Zero
    /\ entries[i].reasons = <<>>

\* C20: for an old clause that stages 1 to 3 leave unbound, align_clauses
\* collects every unused new clause with cosine similarity >= 0.45; if there
\* is at least one, it emits a split_merge entry whose targets are the (up to)
\* two highest-scoring of them in descending score order, with confidence
\* equal to the highest score, and marks every bound target used; if there is
\* none, it emits an entry with an empty target list, confidence 0 and no
\* reasons.
C20_SplitMerge ==
    \A i \in 1..Len(entries) :
        UnboundAfterCosine(i) =>
            IF SplitQualified(i) # {} THEN SplitBound(i, SplitQualified(i))
            ELSE SplitUnmatched(i)

(***************************************************************************)
(* The shape of the entries of an AlignmentMap                             *)
(***************************************************************************)
\* the score of a reason lies in the band of its method
InBand(reason) ==
    CASE reason.method = "title_exact" -> reason.score = One
      [] reason.method = "label_or_heading_fuzzy" -> ScoreLeq(FUZZY_THRESHOLD, reason.score)
      [] reason.method = "semantic_cosine" -> ScoreLeq(COSINE_THRESHOLD, reason.score)
      [] reason.method = "split_merge" ->
             /\ ScoreLeq(SPLIT_THRESHOLD, reason.score)
             /\ ScoreLess(reason.score, COSINE_THRESHOLD)
      [] OTHER -> FALSE

\* an entry with targets has one reason, whose score is its confidence and
\* lies in the band of the method
BoundShape(e) ==
    /\ Len(e.reasons) = 1
    /\ e.confidence = e.reasons[1].score
    /\ InBand(e.reasons[1])
    /\ ScoreLess(Zero, e.confidence)
    /\ e.reasons[1].method = "split_merge" => ~e.move_detected

UnmatchedShape(e) ==
    /\ e.reasons = <<>>
    /\ e.confidence = Zero
    /\ ~e.move_detected

\* C21: in every AlignmentMap an entry has exactly one reason when its target
\* list is non-empty and none when it is empty, its confidence equals that
\* reason's score, and the score lies in the band of its method (title_exact
\* = 1.0, label_or_heading_fuzzy >= 0.70, semantic_cosine >= 0.55, split_merge
\* >= 0.45 and < 0.55); confidence is 0 exactly for unmatched entries, and
\* move_detected is false for split_merge and unmatched entries.
C21_EntryBands ==
    \A i \in 1..Len(entries) :
        IF entries[i].new_clause_ids # <<>> THEN BoundShape(entries[i])
        ELSE UnmatchedShape(entries[i])

\* C21 witness: a finished map whose first entry is bound by semantic_cosine
\* and whose second entry is a split_merge entry
C21_Witness ==
    /\ align_pc = "done"
    /\ Len(entries) = 2
    /\ MethodOf(entries[1]) = "semantic_cosine"
    /\ MethodOf(entries[2]) = "split_merge"

(***************************************************************************)
(* diff_engine.py: diff_clause as a function of two texts                  *)
(***************************************************************************)
DiffClause == FnCall("diff_clause", diff_clause)

DiffClauseNext == DiffClause

MaxDiffWords == 3

\* "a", "B", which the tokenizer lowercases, and "subject to", which it keeps
\* as the one token "subject_to"
DiffLibrary ==
    {<<"a">>, <<"B">>, <<"s", "u", "b", "j", "e", "c", "t", " ", "t", "o">>}

DiffClauseInit ==
    FnInit("diff_clause", PhrasesOf(DiffLibrary, MaxDiffWords), PhrasesOf(DiffLibrary, MaxDiffWords))

SpecDiffClause == DiffClauseInit /\ [][DiffClauseNext]_vars

\* the non-equal runs of the token diff, in order
NonEqualRuns(before, after) ==
    SelectSeq(get_opcodes(before, after, {}), LAMBDA op : op[1] # "equal")

\* the spans of a list lie at increasing, non-overlapping offsets
IncreasingOffsets(spans) ==
    \A k \in 1..Len(spans) : \A l \in 1..Len(spans) :
        k < l => spans[k].token_end <= spans[l].token_start

\* span has the texts and the offsets the claim gives for a run of the diff
SpanOfRun(span, run, before, after) ==
    CASE run[1] = "insert" ->
            /\ span.before = <<>>
            /\ span.token_start = run[4] /\ span.token_end = run[5]
            /\ span.after = JoinWith(SubSeq(after, span.token_start + 1, span.token_end), <<" ">>)
      [] run[1] = "delete" ->
            /\ span.after = <<>>
            /\ span.token_start = run[2] /\ span.token_end = run[3]
            /\ span.before = JoinWith(SubSeq(before, span.token_start + 1, span.token_end), <<" ">>)
      [] OTHER ->
            /\ span.before # <<>> /\ span.after # <<>>
            /\ span.token_start = run[4] /\ span.token_end = run[5]
            /\ span.after = JoinWith(SubSeq(after, span.token_start + 1, span.token_end), <<" ">>)

\* the runs of one tag and the spans of one list correspond one to one, in order
RunsAreSpans(runs, tag, spans, before, after) ==
    LET tagged == SelectSeq(runs, LAMBDA op : op[1] = tag)
    IN  /\ Len(tagged) = Len(spans)
        /\ \A k \in 1..Len(spans) : SpanOfRun(spans[k], tagged[k], before, after)
        /\ IncreasingOffsets(spans)

ClassifiedRuns(result, before, after, runs) ==
    /\ RunsAreSpans(runs, "insert", result.insertions, before, after)
    /\ RunsAreSpans(runs, "delete", result.deletions, before, after)
    /\ RunsAreSpans(runs, "replace", result.substitutions, before, after)
    /\ before = after =>
           result.insertions = <<>> /\ result.deletions = <<>> /\ result.substitutions = <<>>

\* C22: diff_clause turns every non-equal run of the token diff into exactly
\* one span, an insertion, a deletion or a substitution, each list in increasing
\* offset order. An insertion has an empty before text and the after tokens
\* [token_start, token_end) joined by spaces as its after text; a deletion has
\* an empty after text and the before tokens [token_start, token_end) joined by
\* spaces as its before text; a substitution has two non-empty texts and the
\* after tokens [token_start, token_end) as its after text. Two texts with the
\* same tokens give three empty lists.
C22_RunsClassified ==
    (fn_op = "diff_clause" /\ fn_pc = "done") =>
        \E before \in {tokenize_legal(fn_before)} : \E after \in {tokenize_legal(fn_after)} :
            ClassifiedRuns(fn_result, before, after, NonEqualRuns(before, after))

\* "subject to a B" against "a a a": the token "subject_to" is deleted and the
\* token "b", at offset 2 of the before tokens, is replaced by the after tokens
\* [1, 3)
C22_Witness ==
    /\ fn_op = "diff_clause" /\ fn_pc = "done"
    /\ fn_before = <<"s", "u", "b", "j", "e", "c", "t", " ", "t", "o", " ", "a", " ", "B">>
    /\ fn_after = <<"a", " ", "a", " ", "a">>
    /\ Len(fn_result.deletions) = 1 /\ Len(fn_result.substitutions) = 1
    /\ fn_result.deletions[1].before = <<"s", "u", "b", "j", "e", "c", "t", "_", "t", "o">>
    /\ fn_result.substitutions[1].before = <<"b">>
    /\ fn_result.substitutions[1].token_start = 1

(***************************************************************************)
(* rules_engine.py: _find_numeric as a function of two texts               *)
(***************************************************************************)
FindNumeric == FnCall("find_numeric", _find_numeric)

FindNumericNext == FindNumeric

\* "$100", "$500", "10%", "20%.", "10%x"; joined by blanks, so that a
\* percentage is followed by a blank, by punctuation, by a letter or by the end
ThresholdLibrary ==
    {<<"$", "1", "0", "0">>, <<"$", "5", "0", "0">>, <<"1", "0", "%">>,
     <<"2", "0", "%", ".">>, <<"1", "0", "%", "x">>}

FindNumericInit ==
    FnInit("find_numeric", PhrasesOf(ThresholdLibrary, MaxLiterals),
           PhrasesOf(ThresholdLibrary, MaxLiterals))

SpecFindNumeric == FindNumericInit /\ [][FindNumericNext]_vars

\* a percentage as written in a contract: a number at a word boundary and "%",
\* followed by a blank, by punctuation or by the end of the text
WrittenPercentEnd(t, i) ==
    LET e == SkipClass(t, i, Digit)
        f == IF IsCharAt(t, e, ".") /\ IsDigitAt(t, e + 1) THEN SkipClass(t, e + 1, Digit) ELSE e
    IN  IF /\ IsDigitAt(t, i) /\ WordBoundary(t, i) /\ IsCharAt(t, f, "%")
           /\ (f + 1 > Len(t) \/ t[f + 1] \notin WordChar)
        THEN f + 1 ELSE 0

WrittenPercentages(t) == FindAll(WrittenPercentEnd, t, 1)

\* the findings of a list with a severity
WithSeverity(findings, severity) ==
    SelectSeq(findings, LAMBDA f : f.category = "Numeric Threshold" /\ f.severity = severity)

\* one finding of the severity when differs, none otherwise
OneFindingIff(findings, severity, differs) ==
    Len(WithSeverity(findings, severity)) = (IF differs THEN 1 ELSE 0)

\* C23: _find_numeric emits a high "Numeric Threshold" finding exactly when
\* the currency literals of before and after differ as sequences, and a medium
\* "Numeric Threshold" finding exactly when the percentages of before and after,
\* such as "10%" followed by a blank, punctuation or the end of the text, differ
\* as sequences.
C23_NumericThreshold ==
    (fn_op = "find_numeric" /\ fn_pc = "done") =>
        /\ OneFindingIff(fn_result, "high", CurrencyLiterals(fn_before) # CurrencyLiterals(fn_after))
        /\ OneFindingIff(fn_result, "medium", WrittenPercentages(fn_before) # WrittenPercentages(fn_after))

(***************************************************************************)
(* rules_engine.py: apply_rules as a function of two texts                 *)
(***************************************************************************)
ApplyRules == FnCall("apply_rules", apply_rules)

ApplyRulesNext == ApplyRules

\* "may", "shall", "$100", "Material" and "adverse effect": joined by blanks
\* they give the phrases "material" and "material adverse effect" of the
\* lexicon, a modal shift and a currency change
RulesLibrary ==
    {<<"m", "a", "y">>, <<"s", "h", "a", "l", "l">>, <<"$", "1", "0", "0">>,
     <<"M", "a", "t", "e", "r", "i", "a", "l">>,
     <<"a", "d", "v", "e", "r", "s", "e", " ", "e", "f", "f", "e", "c", "t">>}

ApplyRulesInit ==
    FnInit("apply_rules", PhrasesOf(RulesLibrary, MaxWords), PhrasesOf(RulesLibrary, MaxWords))

SpecRules == ApplyRulesInit /\ [][ApplyRulesNext]_vars

\* the categories of the modal, numeric and time detectors
DetectorCategories == {"Obligation Strength", "Numeric Threshold", "Time Period"}

\* the phrases of the lexicon that occur in a text, in declaration order
PhrasesIn(text) == SelectSeq(KEY_TERMS, LAMBDA entry : ContainsText(text, entry[1]))

\* findings ends with one medium finding per phrase, in the order of phrases,
\* and holds only findings of the other detectors before them
EndsWithKeyTerms(findings, phrases) ==
    /\ Len(findings) >= Len(phrases)
    /\ \A k \in 1..Len(findings) :
           IF k <= Len(findings) - Len(phrases)
           THEN findings[k].category \in DetectorCategories
           ELSE /\ findings[k].category = phrases[k - (Len(findings) - Len(phrases))][2]
                /\ findings[k].severity = "medium"

\* C24: apply_rules returns no finding when before equals after; when they
\* differ, its findings end with exactly one medium finding per phrase of the
\* lexicon that occurs in the lowercased before and after texts combined, in
\* the order of the lexicon, after the modal, numeric and time findings.
C24_KeyTermsLast ==
    (fn_op = "apply_rules" /\ fn_pc = "done") =>
        IF fn_before = fn_after THEN fn_result = <<>>
        ELSE EndsWithKeyTerms(fn_result, PhrasesIn(Lower(fn_before) \o <<" ">> \o Lower(fn_after)))

\* "may Material" against "adverse effect shall": the modal finding, then the
\* findings of "material adverse effect", which the combined text holds across
\* the two texts, and of "material"
C24_Witness ==
    /\ fn_op = "apply_rules" /\ fn_pc = "done"
    /\ fn_before = <<"m", "a", "y", " ", "M", "a", "t", "e", "r", "i", "a", "l">>
    /\ fn_after = <<"a", "d", "v", "e", "r", "s", "e", " ", "e", "f", "f", "e", "c", "t", " ", "s", "h", "a", "l", "l">>
    /\ Len(fn_result) = 3
    /\ fn_result[1].category = "Obligation Strength"
    /\ fn_result[2].category = "MAE" /\ fn_result[3].category = "Definitions"

(***************************************************************************)
(* clause_tree.py: the clauses build_clause_tree makes of a document       *)
(***************************************************************************)
MaxSegBlocks == 3

\* the paragraphs "1.2. Definitions", "IV. Fee", "a" and "", and the table
\* cells "t" and "2. Fee"
SegmentLibrary ==
    {Paragraph(<<"1", ".", "2", ".", " ", "D", "e", "f", "i", "n", "i", "t", "i", "o", "n", "s">>),
     Paragraph(<<"I", "V", ".", " ", "F", "e", "e">>),
     Paragraph(<<"a">>), Paragraph(<<>>),
     TableCell(<<"t">>), TableCell(<<"2", ".", " ", "F", "e", "e">>)}

SegmentInit == FnInit("build_clause_tree", DocsOf(SegmentLibrary, MaxSegBlocks), {<<>>})

SpecSegment == SegmentInit /\ [][TermsNext]_vars

\* the blocks the loop does not skip
NonEmptyBlocks(blocks) == SelectSeq(blocks, LAMBDA b : b.text # <<>>)

IsHeadingBlock(block) == SegmenterHeading(block.text).ok

\* the positions of blocks from lo on that hold a heading
HeadingsFrom(blocks, lo) == {k \in lo..Len(blocks) : IsHeadingBlock(blocks[k])}

\* the first position from lo on that holds a heading, or Len(blocks) + 1
NextHeading(blocks, lo) ==
    IF HeadingsFrom(blocks, lo) = {} THEN Len(blocks) + 1
    ELSE CHOOSE k \in HeadingsFrom(blocks, lo) : \A j \in HeadingsFrom(blocks, lo) : k <= j

\* the position, among the clauses, of the clause that holds block k: before
\* the first heading every block is a clause; from it on, a clause per heading
ClauseOfBlock(blocks, k) ==
    IF k < NextHeading(blocks, 1) THEN k
    ELSE (NextHeading(blocks, 1) - 1) + Cardinality({j \in HeadingsFrom(blocks, 1) : j <= k})

\* the texts of blocks lo .. hi - 1, newline-separated
BlockTexts(blocks, lo, hi) ==
    JoinWith([k \in 1..(hi - lo) |-> blocks[lo + k - 1].text], <<"\n">>)

TypeOfTitle(title) ==
    IF Len(title) >= Len(DEFINITIONS) /\ Lower(SubSeq(title, 1, Len(DEFINITIONS))) = DEFINITIONS
    THEN "definition" ELSE "section"

\* clause is what the claim says of block k of blocks
BlockInClause(blocks, k, clause) ==
    /\ ContainsText(clause.text, blocks[k].text)
    /\ IF IsHeadingBlock(blocks[k])
       THEN /\ clause.label = SegmenterHeading(blocks[k].text).num
            /\ clause.type = TypeOfTitle(SegmenterHeading(blocks[k].text).title)
            /\ clause.text = BlockTexts(blocks, k, NextHeading(blocks, k + 1))
       ELSE k < NextHeading(blocks, 1) => clause.text = blocks[k].text

ClausesOf(blocks, children) ==
    /\ Len(children) = (IF blocks = <<>> THEN 0 ELSE ClauseOfBlock(blocks, Len(blocks)))
    /\ \A i \in 1..Len(children) : children[i].clause_id = ClauseId(i)
    /\ \A k \in 1..Len(blocks) : BlockInClause(blocks, k, children[ClauseOfBlock(blocks, k)])

\* C25: every block that matches the heading pattern closes the open clause
\* and opens one whose label is the numbering token and whose type is
\* "definition" when the title starts with "definitions" in any case, "section"
\* otherwise; the blocks that follow it up to the next heading are appended to
\* it, newline-separated. The children of the root are in document order with
\* the ids clause-1 .. clause-n, and the text of every non-empty block lies in
\* exactly one clause.
C25_HeadingsOpenClauses ==
    (fn_op = "build_clause_tree" /\ fn_pc = "done") =>
        ClausesOf(NonEmptyBlocks(fn_before), fn_result.root.children)

\* "a", "1.2. Definitions", "t": a clause for "a", then a definition clause
\* labelled "1.2" that holds the heading and the table cell
C25_Witness ==
    /\ fn_op = "build_clause_tree" /\ fn_pc = "done"
    /\ Len(fn_before) = 3
    /\ fn_before[1] = Paragraph(<<"a">>) /\ fn_before[3] = TableCell(<<"t">>)
    /\ Len(fn_result.root.children) = 2
    /\ fn_result.root.children[2].type = "definition"
    /\ fn_result.root.children[2].label = <<"1", ".", "2">>
    /\ fn_result.root.children[2].text =
           <<"1", ".", "2", ".", " ", "D", "e", "f", "i", "n", "i", "t", "i", "o", "n", "s", "\n", "t">>

IsTableBlock(block) == block.block_type \in {"table", "table_row", "table_cell"}

\* the first position that holds a heading in a block that is not a table
\* block, or Len(blocks) + 1
FirstTextHeading(blocks) ==
    LET heads == {k \in HeadingsFrom(blocks, 1) : ~IsTableBlock(blocks[k])}
    IN  IF heads = {} THEN Len(blocks) + 1
        ELSE CHOOSE k \in heads : \A j \in heads : k <= j

\* the table block k is a clause of its own, of type "table", when no clause
\* is open, and part of the text of the open clause otherwise
TableBlockKept(blocks, k, children) ==
    IF k < FirstTextHeading(blocks)
    THEN /\ Len(children) >= k
         /\ children[k].type = "table"
         /\ children[k].text = blocks[k].text
    ELSE \E i \in 1..Len(children) :
             /\ children[i].type # "table"
             /\ ContainsText(children[i].text, <<"\n">> \o blocks[k].text)

\* C26: a block of a table type never opens a section clause, whatever its
\* text: it is appended to the open clause when there is one, and is a clause
\* of type "table" of its own otherwise.
C26_TablesNeverOpen ==
    (fn_op = "build_clause_tree" /\ fn_pc = "done") =>
        \E blocks \in {NonEmptyBlocks(fn_before)} :
            \A k \in 1..Len(blocks) :
                IsTableBlock(blocks[k]) => TableBlockKept(blocks, k, fn_result.root.children)

(***************************************************************************)
(* dependency.py: the affected clauses of an ImpactReport                  *)
(***************************************************************************)
\* the occurrences of a term in the text of a clause, whatever the case
Occurrences(clause, term) == CountText(Lower(clause.text), Lower(term), 1)

\* the positions of the affected clauses of a report that name a clause
ListedAt(affected, clause) ==
    {i \in 1..Len(affected) : affected[i].clause_id = clause.clause_id}

\* the position of the clause with an id among the clauses of a tree
PositionOf(clauses, id) == CHOOSE k \in 1..Len(clauses) : clauses[k].clause_id = id

\* a clause is listed once, with its count, when it holds the term, and is
\* not listed otherwise
ListedOnceWithCount(affected, clause, term) ==
    IF Occurrences(clause, term) > 0
    THEN /\ Cardinality(ListedAt(affected, clause)) = 1
         /\ \A i \in ListedAt(affected, clause) :
                affected[i].importance_score = Occurrences(clause, term)
    ELSE ListedAt(affected, clause) = {}

\* non-increasing counts, equal counts in the order of the clauses
RankedByCount(affected, clauses) ==
    \A i \in 1..Len(affected) : \A j \in 1..Len(affected) :
        i < j =>
            /\ affected[i].importance_score >= affected[j].importance_score
            /\ affected[i].importance_score = affected[j].importance_score =>
                   PositionOf(clauses, affected[i].clause_id)
                       <= PositionOf(clauses, affected[j].clause_id)

AffectedClausesOf(report, clauses) ==
    /\ \A k \in 1..Len(clauses) :
           ListedOnceWithCount(report.affected_clauses, clauses[k], report.term_changed)
    /\ \A i \in 1..Len(report.affected_clauses) :
           \E k \in 1..Len(clauses) : clauses[k].clause_id = report.affected_clauses[i].clause_id
    /\ RankedByCount(report.affected_clauses, clauses)

\* C27: in every ImpactReport the affected clauses are exactly the clauses of
\* the new tree whose text holds the changed term in any case, each listed once
\* with its number of occurrences as importance_score, by non-increasing count,
\* clauses of equal count in document order.
C27_AffectedClauses ==
    \A r \in DOMAIN requests :
        requests[r].pc = "done" =>
            \A n \in 1..Len(requests[r].response[1].impact_reports) :
                AffectedClausesOf(requests[r].response[1].impact_reports[n],
                                  requests[r].tree_b.root.children)

\* the same, for new trees that define no term twice
AffectedClausesWhenTermsDistinct ==
    \A r \in DOMAIN requests :
        (requests[r].pc = "done" /\ TermsDistinct(requests[r].tree_b)) =>
            \A n \in 1..Len(requests[r].response[1].impact_reports) :
                AffectedClausesOf(requests[r].response[1].impact_reports[n],
                                  requests[r].tree_b.root.children)

(***************************************************************************)
(* rules.py: the summary classifier. utils.py of this snapshot defines     *)
(* none of tokenize_modal, extract_numbers and extract_dates; the three    *)
(* follow the specification: the set of modal verbs, the set of numbers    *)
(* and the set of dates of a text.                                         *)
(***************************************************************************)
ModalVerbs ==
    {<<"m", "a", "y">>, <<"s", "h", "a", "l", "l">>, <<"m", "u", "s", "t">>,
     <<"s", "h", "o", "u", "l", "d">>, <<"w", "i", "l", "l">>}

\* the modal verbs among the words of a text
tokenize_modal(text) == WordsIn(text) \cap ModalVerbs

\* a number: digits, with an optional fraction
NumberEnd(t, i) ==
    LET e == SkipClass(t, i, Digit)
    IN  IF ~IsDigitAt(t, i) THEN 0
        ELSE IF IsCharAt(t, e, ".") /\ IsDigitAt(t, e + 1) THEN SkipClass(t, e + 1, Digit)
        ELSE e

SetOf(seq) == {seq[k] : k \in 1..Len(seq)}

extract_numbers(text) == SetOf(FindAll(NumberEnd, text, 1))
extract_dates(text) == SetOf(DateLiterals(text))

\* the keys of OBLIGATION_SHIFT_MAP, with their reasons
OBLIGATION_SHIFT_MAP ==
    (<< <<"m", "a", "y">>, <<"s", "h", "a", "l", "l">> >> :> "Permission tightened to obligation")
    @@ (<< <<"m", "a", "y">>, <<"m", "u", "s", "t">> >> :> "Permission tightened to obligation")
    @@ (<< <<"s", "h", "o", "u", "l", "d">>, <<"s", "h", "a", "l", "l">> >> :> "Advisory hardened to obligation")
    @@ (<< <<"s", "h", "o", "u", "l", "d">>, <<"m", "u", "s", "t">> >> :> "Advisory hardened to obligation")
    @@ (<< <<"s", "h", "a", "l", "l">>, <<"m", "a", "y">> >> :> "Obligation softened to permission")
    @@ (<< <<"m", "u", "s", "t">>, <<"m", "a", "y">> >> :> "Obligation softened to permission")

\* detect_obligation_shift: a shift for every modal b of before and a of after
\* with b != a and (b, a) in the map (as a set: the modals come as a set)
detect_obligation_shift(before, after) ==
    {[from |-> p[1], to |-> p[2], reason |-> OBLIGATION_SHIFT_MAP[p]] :
        p \in {q \in tokenize_modal(before) \X tokenize_modal(after) :
                  q[1] # q[2] /\ q \in DOMAIN OBLIGATION_SHIFT_MAP}}

\* detect_numeric_changes and detect_date_changes, given the two extracted sets
DetectChanges(b, a) == [before |-> b, after |-> a, changed |-> b # a]

detect_numeric_changes(before, after) ==
    DetectChanges(extract_numbers(before), extract_numbers(after))

detect_date_changes(before, after) ==
    DetectChanges(extract_dates(before), extract_dates(after))

TagIf(cond, tag) == IF cond THEN <<tag>> ELSE <<>>

\* risk_tag_clause, of the texts of a modified clause
RiskTags(obligation_shifts, numbers, dates) ==
    [risk_tags |-> TagIf(obligation_shifts # {}, "obligation_shift")
                   \o TagIf(numbers.changed, "numeric_change")
                   \o TagIf(dates.changed, "date_change"),
     obligation_shifts |-> obligation_shifts, numeric |-> numbers, dates |-> dates]

risk_tag_clause(before, after) ==
    RiskTags(detect_obligation_shift(before, after), detect_numeric_changes(before, after),
             detect_date_changes(before, after))

RiskTagClause == FnCall("risk_tag_clause", risk_tag_clause)

RiskNext == RiskTagClause

\* "may", "Shall", "5", "7" and the date "1/2/2020"
RiskLibrary ==
    {<<"m", "a", "y">>, <<"S", "h", "a", "l", "l">>, <<"5">>, <<"7">>,
     <<"1", "/", "2", "/", "2", "0", "2", "0">>}

RiskInit ==
    FnInit("risk_tag_clause", PhrasesOf(RiskLibrary, MaxWords), PhrasesOf(RiskLibrary, MaxWords))

SpecRisk == RiskInit /\ [][RiskNext]_vars

Tagged(result, tag) == \E k \in 1..Len(result.risk_tags) : result.risk_tags[k] = tag

\* C28: risk_tag_clause tags "numeric_change" exactly when the number sets of
\* before and after differ, "date_change" exactly when their date sets differ,
\* and "obligation_shift" only when their modal-verb sets differ.
C28_TagsOnlyOnChange ==
    (fn_op = "risk_tag_clause" /\ fn_pc = "done") =>
        /\ Tagged(fn_result, "numeric_change") <=> extract_numbers(fn_before) # extract_numbers(fn_after)
        /\ Tagged(fn_result, "date_change") <=> extract_dates(fn_before) # extract_dates(fn_after)
        /\ Tagged(fn_result, "obligation_shift") => tokenize_modal(fn_before) # tokenize_modal(fn_after)

(***************************************************************************)
(* The changes list of a comparison                                        *)
(***************************************************************************)
\* old table cells "x x x y y y z may" and "x x x p p p"; new paragraphs
\* "x x x p p p", "x x x p p shall" and "x x x p p p q r": an old clause is
\* bound to two new clauses by split_merge, and "may" becomes "shall"
ChangesOldLibrary ==
    {Block(<<"x", " ", "x", " ", "x", " ", "y", " ", "y", " ", "y", " ", "z", " ", "m", "a", "y">>,
           "table_cell", Some(0), Some(0)),
     Block(<<"x", " ", "x", " ", "x", " ", "p", " ", "p", " ", "p">>, "table_cell", Some(0), Some(1))}

ChangesNewLibrary ==
    {Block(<<"x", " ", "x", " ", "x", " ", "p", " ", "p", " ", "p">>, "paragraph", None, None),
     Block(<<"x", " ", "x", " ", "x", " ", "p", " ", "p", " ", "s", "h", "a", "l", "l">>,
           "paragraph", None, None),
     Block(<<"x", " ", "x", " ", "x", " ", "p", " ", "p", " ", "p", " ", "q", " ", "r">>,
           "paragraph", None, None)}

ChangesInit ==
    CompareInitWith({1}, DocsOf(ChangesOldLibrary, MaxCompareBlocks),
                    DocsOf(ChangesNewLibrary, MaxCompareBlocks))

SpecChanges == ChangesInit /\ [][CompareNext]_vars

\* the (old clause id, target id) pairs of the entries from entry k on
RECURSIVE AlignedPairs(_, _)
AlignedPairs(entries_, k) ==
    IF k > Len(entries_) THEN <<>>
    ELSE [j \in 1..Len(entries_[k].new_clause_ids) |->
             [old_id |-> entries_[k].old_clause_id, new_id |-> entries_[k].new_clause_ids[j]]]
         \o AlignedPairs(entries_, k + 1)

\* the first n change sets are those of the pairs, in order
ChangesOfPairs(changes, pairs, old_tree, new_tree) ==
    \A k \in 1..Len(pairs) :
        /\ changes[k].clause_id = pairs[k].new_id
        /\ changes[k].before_text = TextOf(old_tree, pairs[k].old_id)
        /\ changes[k].after_text = TextOf(new_tree, pairs[k].new_id)

\* at most one more change set, "table-changes"
ThenTableChanges(changes, n) ==
    /\ Len(changes) \in {n, n + 1}
    /\ Len(changes) = n + 1 =>
           changes[n + 1].clause_id = <<"table-changes">>
           /\ changes[n + 1].table_cell_changes # <<>>

PairwiseDistinctIds(changes) ==
    \A i \in 1..Len(changes) : \A j \in 1..Len(changes) :
        changes[i].clause_id = changes[j].clause_id => i = j

\* every row of a list carries the id of a target of a pair
OnlyOfTargets(rows, pairs) ==
    \A k \in 1..Len(rows) : \E n \in 1..Len(pairs) : rows[k].clause_id = pairs[n].new_id

ChangesListOf(response, pairs, old_tree, new_tree) ==
    /\ ThenTableChanges(response.changes, Len(pairs))
    /\ ChangesOfPairs(response.changes, pairs, old_tree, new_tree)
    /\ PairwiseDistinctIds(response.changes)
    /\ OnlyOfTargets(response.materiality, pairs)
    /\ OnlyOfTargets(response.numeric_deltas, pairs)

\* C29: the changes of a comparison are one ChangeSet per (entry, target id)
\* pair of the alignment, in entry order, with the target id as clause_id, so
\* with pairwise distinct ids, followed by at most one "table-changes"
\* ChangeSet; an old clause without target and a new clause that no entry
\* targets give no ChangeSet, no finding and no numeric delta.
C29_ChangesPerPair ==
    \A r \in DOMAIN requests :
        requests[r].pc = "done" =>
            ChangesListOf(requests[r].response[1], AlignedPairs(requests[r].alignment.entries, 1),
                          requests[r].tree_a, requests[r].tree_b)

\* an old clause bound to two new clauses, of which the second yields a modal
\* finding, an old clause without target, and table changes
C29_Witness ==
    \E r \in DOMAIN requests :
        /\ requests[r].pc = "done"
        /\ Len(requests[r].alignment.entries) = 2
        /\ Len(requests[r].alignment.entries[1].new_clause_ids) = 2
        /\ requests[r].alignment.entries[2].new_clause_ids = <<>>
        /\ Len(requests[r].response[1].changes) = 3
        /\ requests[r].response[1].changes[3].clause_id = <<"table-changes">>
        /\ requests[r].response[1].materiality # <<>>

(***************************************************************************)
(* main.py: GET /report and GET /report/html. ai_call records the request, *)
(* its status and, in rendered, the ai handed to the report builder.       *)
(***************************************************************************)
\* "ai = AI_RUNS.get(run_id) if ai_enabled else None"
stored_ai(run_id, ai_enabled) ==
    IF ai_enabled /\ run_id \in DOMAIN AI_RUNS THEN Some(AI_RUNS[run_id]) ELSE None

\* the response of a report endpoint, and AI_RUNS after it
rendered_with(endpoint, run_id, ai_enabled, ai, status, ai_runs) ==
    /\ ai_call' = [endpoint |-> endpoint, run_id |-> run_id, ai_enabled |-> ai_enabled,
                   env |-> None, compare |-> Some(RUNS[run_id]), status |-> status,
                   raised |-> status = 500, returned |-> None, rendered |-> ai]
    /\ AI_RUNS' = ai_runs

\* "if ai is None and ai_enabled: ai = _ai_insights(compare, ai_enabled);
\* AI_RUNS[run_id] = ai", then the report built with ai
report_for(endpoint, run_id, ai_enabled, env) ==
    /\ run_id \in DOMAIN RUNS
    /\ IF stored_ai(run_id, ai_enabled) = None /\ ai_enabled
       THEN \E order \in Orders(ClauseIdsOf(RUNS[run_id])) :
                \E ai \in {_ai_insights(RUNS[run_id], ai_enabled, env, order)} :
                    IF ai.raised
                    THEN rendered_with(endpoint, run_id, ai_enabled, None, 500, AI_RUNS)
                    ELSE rendered_with(endpoint, run_id, ai_enabled, ai.value, 200,
                                       (run_id :> ai.value[1]) @@ AI_RUNS)
       ELSE rendered_with(endpoint, run_id, ai_enabled, stored_ai(run_id, ai_enabled), 200,
                          AI_RUNS)
    /\ UNCHANGED <<alignVars, fnVars, requests, RUNS>>

\* a report endpoint for an unknown run: HTTPException 404
report_missing(endpoint, run_id, ai_enabled) ==
    /\ run_id \notin DOMAIN RUNS
    /\ ai_call' = [endpoint |-> endpoint, run_id |-> run_id, ai_enabled |-> ai_enabled,
                   env |-> None, compare |-> None, status |-> 404, raised |-> FALSE,
                   returned |-> None, rendered |-> None]
    /\ UNCHANGED <<alignVars, fnVars, requests, RUNS, AI_RUNS>>

report(run_id, ai_enabled, env) == report_for("report", run_id, ai_enabled, env)
report_html(run_id, ai_enabled, env) == report_for("report_html", run_id, ai_enabled, env)
report_not_found(run_id, ai_enabled) == report_missing("report", run_id, ai_enabled)
report_html_not_found(run_id, ai_enabled) == report_missing("report_html", run_id, ai_enabled)

ReportNext ==
    \E run_id \in RunIds, ai_enabled \in BOOLEAN :
        \/ report_not_found(run_id, ai_enabled)
        \/ report_html_not_found(run_id, ai_enabled)
        \/ \E env \in GeminiReplies : report(run_id, ai_enabled, env)
        \/ \E env \in GeminiReplies : report_html(run_id, ai_enabled, env)

ReportsNext == CompareNext \/ AiNext \/ ReportNext

\* one comparison, then any requests for its enrichment and its reports
SpecReport == EnrichInit /\ [][ReportsNext]_vars

\* the last request was a report with ai_enabled = true for a known run, and
\* it was rendered with an AiResponse whose ai_enabled is true
RenderedEnabled ==
    (ai_call.endpoint \in {"report", "report_html"} /\ ai_call.ai_enabled /\ ai_call.status # 404) =>
        /\ ai_call.status = 200
        /\ ai_call.rendered # None
        /\ ai_call.rendered[1].ai_enabled

\* a request is answered 404 exactly when its run id is unknown, and then it
\* leaves RUNS and AI_RUNS as they are
NotFoundChangesNothing ==
    ai_call' # ai_call =>
        /\ ai_call'.status = 404 <=> ai_call'.run_id \notin DOMAIN RUNS
        /\ ai_call'.status = 404 => RUNS' = RUNS /\ AI_RUNS' = AI_RUNS

\* C30: for a known run, after any earlier /report, /report/html and
\* /ai/insights requests on it, with ai_enabled true or false, a /report or
\* /report/html request with ai_enabled = true is rendered with an AiResponse
\* whose ai_enabled is true; a request for an unknown run is answered 404 and
\* leaves the stored runs and AI results unchanged.
C30_ReportsRenderEnabledAi == []RenderedEnabled /\ [][NotFoundChangesNothing]_vars

====
